---------------------------- MODULE Spec2Model ----------------------------
(***************************************************************************)
(* Model of the DVD navigation and streaming engine of                     *)
(* feature-dvd/src/main/cpp/dvd_jni.cpp (build with HAVE_DVDREAD).         *)
(*                                                                         *)
(* The process-wide handle tables, the catalog queries and the streaming   *)
(* loop are translated from the JNI entry points.  libdvdread is the       *)
(* environment: a disc is a record of the tables ifoOpen hands out, and a  *)
(* table the library could not load is NULL.                               *)
(***************************************************************************)
EXTENDS Integers, Sequences, FiniteSets, TLC

VARIABLES
    discs,              \* environment: backend id -> catalog of the medium behind it
    g_dvdHandles,       \* std::map<jlong, unique_ptr<DvdHandle>>
    g_nextHandleId,     \* static jlong g_nextHandleId
    g_vobHandles,       \* std::map<jlong, unique_ptr<VobHandle>>
    g_nextVobHandleId,  \* static jlong g_nextVobHandleId
    liveReaders,        \* dvd_reader_t objects not yet passed to DVDClose
    liveSources,        \* JavaDataSource objects not yet deleted
    lastCall,           \* the JNI call that ran last: arguments, return value, library calls
    stream,             \* locals of the dvdStreamToFdNative call, if it was the last call
    sink,               \* bytes the consumer behind that call's outFd has accepted, in order
    attachedThreads,    \* environment: the threads attached to the JavaVM behind g_vm
    javaSource,         \* the JavaDataSource the provider callbacks are given, or NULL
    lastCallback,       \* the provider callback that ran last: arguments, result, JNI calls
    inFlight,           \* open and close calls that run on two threads at once
    vlc                 \* vlc_jni.cpp: g_vm, g_libvlc_handle, the looked-up functions, last call

vars == <<discs, g_dvdHandles, g_nextHandleId, g_vobHandles, g_nextVobHandleId,
          liveReaders, liveSources, lastCall, stream, sink,
          attachedThreads, javaSource, lastCallback, inFlight, vlc>>

\* the state of the provider callbacks, and of the calls of the two threads
Provider == <<attachedThreads, javaSource, lastCallback>>
Outside == <<Provider, inFlight, vlc>>

(***************************************************************************)
(* Bounds of the model.                                                    *)
(***************************************************************************)
MaxHandles == 2
MaxVobHandles == 2
MaxReadFailures == 2
MaxShortReads == 1
MaxPartialWrites == 2
MaxReads == 7
MaxTitleArg == 3
MaxChapterArg == 3
MaxPosition == 2148
MaxRaceCalls == 2

(***************************************************************************)
(* Program constants.                                                      *)
(***************************************************************************)
BLOCK_COUNT == 128
DVD_VIDEO_LB_LEN == 2048
INT_MAX == 2147483647

(***************************************************************************)
(* Pointers: NULL or a pointer to one value.                               *)
(***************************************************************************)
NULL == <<>>
Ptr(x) == <<x>>
IsNull(p) == Len(p) = 0
Deref(p) == p[1]


(***************************************************************************)
(* The catalog libdvdread reads from a medium.                             *)
(*   disc.vmg      ifo handle of the disc-wide metadata (ifoOpen(dvd,0))   *)
(*   disc.vts[n]   ifo handle of title set n          (ifoOpen(dvd,n))     *)
(*   disc.vob[n]   the title set's VOB file can be opened                  *)
(* An ifo handle carries every table pointer of ifo_handle_t that the      *)
(* code reads; a table that was not loaded is NULL.                        *)
(***************************************************************************)
Ifo(mat, tt, txt, vmat, ptt, pgcit) ==
    [vmgi_mat |-> mat, tt_srpt |-> tt, txtdt_mgi |-> txt,
     vtsi_mat |-> vmat, vts_ptt_srpt |-> ptt, vts_pgcit |-> pgcit]

VmgIfo(mat, tt, txt) == Ifo(mat, tt, txt, NULL, NULL, NULL)
VtsIfo(vmat, ptt, pgcit) == Ifo(NULL, NULL, NULL, vmat, ptt, pgcit)

\* tt_srpt_t: nr_of_srpts and the title_info_t array
TtSrpt(titles) == [nr_of_srpts |-> Len(titles), title |-> titles]
Title(tsn, ttn) == [title_set_nr |-> tsn, vts_ttn |-> ttn]

\* vts_ptt_srpt_t: per in-set title, the pgcn of its first ptt entry
PttSrpt(pgcns) == [nr_of_srpts |-> Len(pgcns), title |-> pgcns]

\* pgcit_t: nr_of_pgci_srp and the pgci_srp array; each entry's pgc may be NULL
Pgcit(pgcs) == [nr_of_pgci_srp |-> Len(pgcs), pgci_srp |-> pgcs]

\* cell_playback_t and dvd_time_t (BCD bytes)
Time(h, m, s, f) == [hour |-> h, minute |-> m, second |-> s, frame_u |-> f]
Cell(first, last, t) == [first_sector |-> first, last_sector |-> last, playback_time |-> t]

\* pgc_t
Pgc(t, map, cells) ==
    [nr_of_programs |-> Len(map), nr_of_cells |-> Len(cells), playback_time |-> t,
     program_map |-> map, cell_playback |-> cells]

\* audio_attr_t, subp_attr_t, vtsi_mat_t
AudioAttr(lang, fmt, freq, ch) ==
    [lang_code |-> lang, audio_format |-> fmt, sample_frequency |-> freq, channels |-> ch]
SubpAttr(lang, mode) == [lang_code |-> lang, code_mode |-> mode]
VtsiMat(na, audio, ns, subp) ==
    [nr_of_vts_audio_streams |-> na, vts_audio_attr |-> audio,
     nr_of_vts_subp_streams |-> ns, vts_subp_attr |-> subp]

\* vmgi_mat_t: provider_identifier (up to its first NUL) and the txtdt_mgi offset
VmgiMat(provider, txtOffset) == [provider_identifier |-> provider, txtdt_mgi |-> txtOffset]

\* ifoOpen(dvd, title): NULL when the IFO cannot be opened
ifoOpen(disc, n) ==
    IF n = 0 THEN disc.vmg
    ELSE IF n \in DOMAIN disc.vts THEN disc.vts[n]
    ELSE NULL

\* DVDOpenFile(dvd, vtsN, DVD_READ_TITLE_VOBS): NULL when the VOBs cannot be opened
DVDOpenFile(disc, n) == n \in DOMAIN disc.vob /\ disc.vob[n]

(***************************************************************************)
(* The record of one JNI call.  lib lists the library calls it made, in    *)
(* order.  ub: the call executed undefined behaviour (a NULL table         *)
(* pointer dereferenced, an array indexed out of bounds).                  *)
(***************************************************************************)
Ret(r, lib) == [ret |-> r, lib |-> lib, ub |-> FALSE]
Undefined(lib) == [ret |-> NULL, lib |-> lib, ub |-> TRUE]

Open(n) == <<"ifoOpen", n>>
Close(n) == <<"ifoClose", n>>


(***************************************************************************)
(* Decoders.                                                               *)
(***************************************************************************)
\* faulty variant: the bytes are taken as binary numbers
TimeBytesAsBinary(t) ==
    IF IsNull(t) THEN 0
    ELSE Deref(t).hour * 3600000 + Deref(t).minute * 60000
         + Deref(t).second * 1000 + Deref(t).frame_u * 33

\* dvdTimeToMs(dvd_time_t*): t is NULL or a pointer to the BCD bytes
dvdTimeToMs(t) ==
    IF IsNull(t) THEN 0
    ELSE LET hours   == ((Deref(t).hour \div 16) % 16) * 10 + (Deref(t).hour % 16)
             minutes == ((Deref(t).minute \div 16) % 16) * 10 + (Deref(t).minute % 16)
             seconds == ((Deref(t).second \div 16) % 16) * 10 + (Deref(t).second % 16)
             frames  == ((Deref(t).frame_u \div 16) % 16) * 10 + (Deref(t).frame_u % 16)
         IN hours * 3600000 + minutes * 60000 + seconds * 1000 + frames * 33

isalpha(c) == c \in 65..90 \/ c \in 97..122
tolower(c) == IF c \in 65..90 THEN c + 32 ELSE c

\* faulty variant: the letters keep their case
LangCodeKeepsCase(code) ==
    LET a == (code \div 256) % 256
        b == code % 256
    IN IF ~isalpha(a) \/ ~isalpha(b) THEN <<>> ELSE <<a, b>>

\* langCodeToString(uint16_t): the string as its sequence of bytes
langCodeToString(code) ==
    LET a == (code \div 256) % 256
        b == code % 256
    IN IF ~isalpha(a) \/ ~isalpha(b) THEN <<>> ELSE <<tolower(a), tolower(b)>>

audioFormatToCodec(fmt) ==
    CASE fmt = 0 -> "AC3"
      [] fmt = 1 -> "Unknown"
      [] fmt = 2 -> "MPEG1"
      [] fmt = 3 -> "MPEG2"
      [] fmt = 4 -> "LPCM"
      [] fmt = 5 -> "DTS"
      [] fmt = 6 -> "SDDS"
      [] OTHER -> "Unknown"

\* faulty variant: the rates in ascending order
RatesAscending(freq) ==
    CASE freq % 4 = 0 -> 32000
      [] freq % 4 = 1 -> 44100
      [] freq % 4 = 2 -> 48000
      [] freq % 4 = 3 -> 96000

sampleFrequencyToRate(freq) ==
    CASE freq % 4 = 0 -> 48000
      [] freq % 4 = 1 -> 96000
      [] freq % 4 = 2 -> 44100
      [] freq % 4 = 3 -> 32000

Min(a, b) == IF a < b THEN a ELSE b

(***************************************************************************)
(* Catalog queries, after the handle lookup: each takes the catalog of the *)
(* handle's medium and gives the return value and the library calls made.  *)
(***************************************************************************)
\* dvdGetTitleCountNative, from "ifoOpen(dvd, 0)" on
\* faulty variant: a missing title table is answered like an unknown handle
TitleCountWithoutTable(disc) ==
    LET vmg == ifoOpen(disc, 0) IN
    IF IsNull(vmg) THEN Ret(0, <<Open(0)>>)
    ELSE IF IsNull(Deref(vmg).tt_srpt) THEN Ret(-1, <<Open(0), Close(0)>>)
    ELSE Ret(Deref(Deref(vmg).tt_srpt).nr_of_srpts, <<Open(0), Close(0)>>)

dvdGetTitleCount(disc) ==
    LET vmg == ifoOpen(disc, 0) IN
    IF IsNull(vmg) THEN Ret(0, <<Open(0)>>)
    ELSE IF IsNull(Deref(vmg).tt_srpt) THEN Ret(0, <<Open(0), Close(0)>>)
    ELSE Ret(Deref(Deref(vmg).tt_srpt).nr_of_srpts, <<Open(0), Close(0)>>)

\* dvdReadTitleNative: "titleNumber > vmg->tt_srpt->nr_of_srpts" reads tt_srpt
\* unchecked once titleNumber >= 1, vts->vts_pgcit is read unchecked, and
\* pgci_srp[0] is read whatever nr_of_pgci_srp is
dvdReadTitle(disc, titleNumber) ==
    LET vmg == ifoOpen(disc, 0) IN
    IF IsNull(vmg) THEN Ret(NULL, <<Open(0)>>)
    ELSE IF titleNumber < 1 THEN Ret(NULL, <<Open(0), Close(0)>>)
    ELSE IF IsNull(Deref(vmg).tt_srpt) THEN Undefined(<<Open(0)>>)
    ELSE LET tt_srpt == Deref(Deref(vmg).tt_srpt) IN
    IF titleNumber > tt_srpt.nr_of_srpts
    THEN Ret(NULL, <<Open(0), Close(0)>>)
    ELSE LET vtsN == tt_srpt.title[titleNumber].vts_ttn
             vts == ifoOpen(disc, vtsN) IN
    IF IsNull(vts) THEN Ret(NULL, <<Open(0), Open(vtsN), Close(0)>>)
    ELSE IF IsNull(Deref(vts).vts_pgcit) THEN Undefined(<<Open(0), Open(vtsN)>>)
    ELSE IF Deref(Deref(vts).vts_pgcit).nr_of_pgci_srp = 0
    THEN Undefined(<<Open(0), Open(vtsN)>>)
    ELSE LET pgc == Deref(Deref(vts).vts_pgcit).pgci_srp[1]
             chapterCount == IF IsNull(pgc) THEN 0 ELSE Deref(pgc).nr_of_programs
             duration == IF IsNull(pgc) THEN 0
                         ELSE dvdTimeToMs(Ptr(Deref(pgc).playback_time))
         IN Ret(Ptr([titleNumber |-> titleNumber, chapterCount |-> chapterCount,
                     duration |-> duration]),
                <<Open(0), Open(vtsN), Close(vtsN), Close(0)>>)

\* the loop "for (int i = 0; i < count; i++)" of dvdGetAudioTracksNative
RECURSIVE AudioTrackLoop(_, _, _)
AudioTrackLoop(mat, i, count) ==
    IF i >= count THEN <<>>
    ELSE LET attr == mat.vts_audio_attr[i + 1] IN
         <<[index |-> i,
            lang |-> langCodeToString(attr.lang_code),
            codec |-> audioFormatToCodec(attr.audio_format),
            channels |-> attr.channels + 1,
            sampleRate |-> sampleFrequencyToRate(attr.sample_frequency)]>>
         \o AudioTrackLoop(mat, i + 1, count)

dvdGetAudioTracks(disc, titleNumber) ==
    LET vmg == ifoOpen(disc, 0) IN
    IF IsNull(vmg) THEN Ret(NULL, <<Open(0)>>)
    ELSE IF \/ IsNull(Deref(vmg).tt_srpt)
            \/ titleNumber < 1
            \/ titleNumber > Deref(Deref(vmg).tt_srpt).nr_of_srpts
    THEN Ret(NULL, <<Open(0), Close(0)>>)
    ELSE LET vtsN == Deref(Deref(vmg).tt_srpt).title[titleNumber].title_set_nr
             vts == ifoOpen(disc, vtsN) IN
    IF IsNull(vts) THEN Ret(NULL, <<Open(0), Close(0), Open(vtsN)>>)
    ELSE IF IsNull(Deref(vts).vtsi_mat)
    THEN Ret(NULL, <<Open(0), Close(0), Open(vtsN), Close(vtsN)>>)
    ELSE LET mat == Deref(Deref(vts).vtsi_mat)
             count == mat.nr_of_vts_audio_streams IN
    IF count <= 0 THEN Ret(NULL, <<Open(0), Close(0), Open(vtsN), Close(vtsN)>>)
    ELSE Ret(Ptr(AudioTrackLoop(mat, 0, Min(count, 8))),
             <<Open(0), Close(0), Open(vtsN), Close(vtsN)>>)


\* the loop "for (int i = 0; i < count; i++)" of dvdGetSubtitleTracksNative
RECURSIVE SubtitleTrackLoop(_, _, _)
SubtitleTrackLoop(mat, i, count) ==
    IF i >= count THEN <<>>
    ELSE LET attr == mat.vts_subp_attr[i + 1] IN
         <<[index |-> i,
            lang |-> langCodeToString(attr.lang_code),
            type |-> CASE attr.code_mode % 4 = 0 -> "rle"
                       [] attr.code_mode % 4 = 1 -> "extended"
                       [] OTHER -> "subpicture"]>>
         \o SubtitleTrackLoop(mat, i + 1, count)

dvdGetSubtitleTracks(disc, titleNumber) ==
    LET vmg == ifoOpen(disc, 0) IN
    IF IsNull(vmg) THEN Ret(NULL, <<Open(0)>>)
    ELSE IF \/ IsNull(Deref(vmg).tt_srpt)
            \/ titleNumber < 1
            \/ titleNumber > Deref(Deref(vmg).tt_srpt).nr_of_srpts
    THEN Ret(NULL, <<Open(0), Close(0)>>)
    ELSE LET vtsN == Deref(Deref(vmg).tt_srpt).title[titleNumber].title_set_nr
             vts == ifoOpen(disc, vtsN) IN
    IF IsNull(vts) THEN Ret(NULL, <<Open(0), Close(0), Open(vtsN)>>)
    ELSE IF IsNull(Deref(vts).vtsi_mat)
    THEN Ret(NULL, <<Open(0), Close(0), Open(vtsN), Close(vtsN)>>)
    ELSE LET mat == Deref(Deref(vts).vtsi_mat)
             count == mat.nr_of_vts_subp_streams IN
    IF count <= 0 THEN Ret(NULL, <<Open(0), Close(0), Open(vtsN), Close(vtsN)>>)
    ELSE Ret(Ptr(SubtitleTrackLoop(mat, 0, Min(count, 32))),
             <<Open(0), Close(0), Open(vtsN), Close(vtsN)>>)

\* the loop "for (int i = 0; i < chapterNumber - 1; i++)" of dvdReadChapterNative;
\* program_map[i] is the 1-based cell number of program i+1
RECURSIVE ChapterStartLoop(_, _, _)
ChapterStartLoop(pgc, i, chapterNumber) ==
    IF i >= chapterNumber - 1 THEN 0
    ELSE (IF i < pgc.nr_of_programs /\ pgc.program_map[i + 1] - 1 < pgc.nr_of_cells
          THEN dvdTimeToMs(Ptr(pgc.cell_playback[pgc.program_map[i + 1]].playback_time))
          ELSE 0)
         + ChapterStartLoop(pgc, i + 1, chapterNumber)

\* the indexes at which dvdReadChapterNative reads program_map once the test
\* "chapterNumber > pgc->nr_of_programs" has let chapterNumber pass: i in the
\* loop, under "i < pgc->nr_of_programs", then chapterNumber - 1
ProgramMapReads(pgc, chapterNumber) ==
    {i \in 0..(chapterNumber - 2) : i < pgc.nr_of_programs} \cup {chapterNumber - 1}

\* dvdReadChapterNative: vmg->tt_srpt and vts->vts_pgcit are read unchecked,
\* pgci_srp[0] is read whatever nr_of_pgci_srp is, and program_map[chapterNumber-1]
\* is read for every chapterNumber <= nr_of_programs
dvdReadChapter(disc, titleNumber, chapterNumber) ==
    LET vmg == ifoOpen(disc, 0) IN
    IF IsNull(vmg) THEN Ret(NULL, <<Open(0)>>)
    ELSE IF titleNumber < 1 THEN Ret(NULL, <<Open(0), Close(0)>>)
    ELSE IF IsNull(Deref(vmg).tt_srpt) THEN Undefined(<<Open(0)>>)
    ELSE LET tt_srpt == Deref(Deref(vmg).tt_srpt) IN
    IF titleNumber > tt_srpt.nr_of_srpts
    THEN Ret(NULL, <<Open(0), Close(0)>>)
    ELSE LET vtsN == tt_srpt.title[titleNumber].vts_ttn
             vts == ifoOpen(disc, vtsN) IN
    IF IsNull(vts) THEN Ret(NULL, <<Open(0), Open(vtsN), Close(0)>>)
    ELSE IF IsNull(Deref(vts).vts_pgcit) THEN Undefined(<<Open(0), Open(vtsN)>>)
    ELSE IF Deref(Deref(vts).vts_pgcit).nr_of_pgci_srp = 0
    THEN Undefined(<<Open(0), Open(vtsN)>>)
    ELSE LET pgc == Deref(Deref(vts).vts_pgcit).pgci_srp[1] IN
    IF IsNull(pgc) \/ chapterNumber > Deref(pgc).nr_of_programs
    THEN Ret(NULL, <<Open(0), Open(vtsN), Close(vtsN), Close(0)>>)
    ELSE IF \E i \in ProgramMapReads(Deref(pgc), chapterNumber) :
               i \notin 0..(Deref(pgc).nr_of_programs - 1)
    THEN Undefined(<<Open(0), Open(vtsN)>>)
    ELSE LET p == Deref(pgc)
             startTime == ChapterStartLoop(p, 0, chapterNumber)
             cellIdx == p.program_map[chapterNumber] - 1
             duration == IF cellIdx < p.nr_of_cells
                         THEN dvdTimeToMs(Ptr(p.cell_playback[cellIdx + 1].playback_time))
                         ELSE 0
         IN Ret(Ptr([chapterNumber |-> chapterNumber, startTime |-> startTime,
                     duration |-> duration]),
                <<Open(0), Open(vtsN), Close(vtsN), Close(0)>>)

\* the trimming loops of dvdGetNameNative: every byte that is not a space is kept
RECURSIVE Trim(_)
Trim(str) ==
    IF str = <<>> THEN <<>>
    ELSE (IF Head(str) # " " THEN <<Head(str)>> ELSE <<>>) \o Trim(Tail(str))

\* dvdGetNameNative; vmg.txtdt_mgi is the text table as it stands once
\* ifoRead_TXTDT_MGI has been tried (it is tried when the table is not loaded
\* and vmgi_mat->txtdt_mgi is not 0)
dvdGetName(disc) ==
    LET vmg == ifoOpen(disc, 0) IN
    IF IsNull(vmg) THEN Ret(NULL, <<Open(0)>>)
    ELSE IF IsNull(Deref(vmg).vmgi_mat) THEN Ret(NULL, <<Open(0), Close(0)>>)
    ELSE LET providerId == Deref(Deref(vmg).vmgi_mat).provider_identifier IN
    IF Len(providerId) > 0 /\ Len(Trim(providerId)) > 0
    THEN Ret(Ptr(Trim(providerId)), <<Open(0), Close(0)>>)
    ELSE LET txt == Deref(vmg).txtdt_mgi
             lib == IF Deref(Deref(vmg).vmgi_mat).txtdt_mgi # 0 /\ IsNull(txt)
                    THEN <<Open(0), <<"ifoRead_TXTDT_MGI", 0>>, Close(0)>>
                    ELSE <<Open(0), Close(0)>> IN
    IF ~IsNull(txt) /\ Len(Deref(txt)) > 0 /\ Len(Trim(Deref(txt))) > 0
    THEN Ret(Ptr(Trim(Deref(txt))), lib)
    ELSE Ret(NULL, lib)


(***************************************************************************)
(* uint32_t sector numbers are held as their 32-bit patterns read as two's *)
(* complement, the width of TLC's integers: 2^32-1 is -1, and the unsigned *)
(* order puts every negative pattern above every non-negative one.         *)
(***************************************************************************)
U32Le(a, b) ==
    IF (a >= 0) = (b >= 0) THEN a <= b ELSE a >= 0

U32Lt(a, b) == a # b /\ U32Le(a, b)

(***************************************************************************)
(* Program-chain resolution, as dvdStreamToFdNative does it.               *)
(***************************************************************************)
\* faulty variant: without the fallback to the first chain
StreamResolveWithoutFallback(vts, vtsTtn) ==
    IF /\ ~IsNull(vts.vts_ptt_srpt)
       /\ vtsTtn > 0
       /\ vtsTtn <= Deref(vts.vts_ptt_srpt).nr_of_srpts
       /\ ~IsNull(vts.vts_pgcit)
       /\ Deref(vts.vts_ptt_srpt).title[vtsTtn] > 0
       /\ Deref(vts.vts_ptt_srpt).title[vtsTtn] <= Deref(vts.vts_pgcit).nr_of_pgci_srp
    THEN Deref(vts.vts_pgcit).pgci_srp[Deref(vts.vts_ptt_srpt).title[vtsTtn]]
    ELSE NULL

\* "pgc_t* pgc = nullptr; if (vts->vts_ptt_srpt && ...)" up to the fallback
StreamResolvePgc(vts, vtsTtn) ==
    LET viaPtt ==
            IF /\ ~IsNull(vts.vts_ptt_srpt)
               /\ vtsTtn > 0
               /\ vtsTtn <= Deref(vts.vts_ptt_srpt).nr_of_srpts
            THEN LET pgcn == Deref(vts.vts_ptt_srpt).title[vtsTtn] IN
                 IF /\ ~IsNull(vts.vts_pgcit)
                    /\ pgcn > 0
                    /\ pgcn <= Deref(vts.vts_pgcit).nr_of_pgci_srp
                 THEN Deref(vts.vts_pgcit).pgci_srp[pgcn]
                 ELSE NULL
            ELSE NULL
    IN IF /\ IsNull(viaPtt)
          /\ ~IsNull(vts.vts_pgcit)
          /\ Deref(vts.vts_pgcit).nr_of_pgci_srp > 0
       THEN Deref(vts.vts_pgcit).pgci_srp[1]
       ELSE viaPtt

\* the loop that computes totalSectors
RECURSIVE TotalSectorsLoop(_, _)
TotalSectorsLoop(pgc, i) ==
    IF i >= pgc.nr_of_cells THEN 0
    ELSE (IF U32Le(pgc.cell_playback[i + 1].first_sector, pgc.cell_playback[i + 1].last_sector)
          THEN pgc.cell_playback[i + 1].last_sector - pgc.cell_playback[i + 1].first_sector + 1
          ELSE 0)
         + TotalSectorsLoop(pgc, i + 1)

\* dvdStreamToFdNative from "ifoOpen(dvd, 0)" to the malloc of the batch buffer:
\* ok = FALSE with the value returned, or ok = TRUE with what the read loop needs
StreamSetup(disc, titleNumber, mallocOk) ==
    LET vmg == ifoOpen(disc, 0)
        Fail(lib) == [ok |-> FALSE, ret |-> -1, lib |-> lib] IN
    IF IsNull(vmg) THEN Fail(<<Open(0)>>)
    ELSE IF IsNull(Deref(vmg).tt_srpt) THEN Fail(<<Open(0), Close(0)>>)
    ELSE LET numTitles == Deref(Deref(vmg).tt_srpt).nr_of_srpts IN
    IF titleNumber < 1 \/ titleNumber > numTitles THEN Fail(<<Open(0), Close(0)>>)
    ELSE LET vtsN == Deref(Deref(vmg).tt_srpt).title[titleNumber].title_set_nr
             vtsTtn == Deref(Deref(vmg).tt_srpt).title[titleNumber].vts_ttn
             vts == ifoOpen(disc, vtsN) IN
    IF IsNull(vts) THEN Fail(<<Open(0), Close(0), Open(vtsN)>>)
    ELSE LET pgc == StreamResolvePgc(Deref(vts), vtsTtn) IN
    IF IsNull(pgc) THEN Fail(<<Open(0), Close(0), Open(vtsN), Close(vtsN)>>)
    ELSE IF ~DVDOpenFile(disc, vtsN)
    THEN Fail(<<Open(0), Close(0), Open(vtsN), <<"DVDOpenFile", vtsN>>, Close(vtsN)>>)
    ELSE IF ~mallocOk
    THEN Fail(<<Open(0), Close(0), Open(vtsN), <<"DVDOpenFile", vtsN>>,
                <<"malloc", BLOCK_COUNT * DVD_VIDEO_LB_LEN>>,
                <<"DVDCloseFile", vtsN>>, Close(vtsN)>>)
    ELSE [ok |-> TRUE, vtsN |-> vtsN, pgc |-> Deref(pgc),
          totalSectors |-> TotalSectorsLoop(Deref(pgc), 0),
          lib |-> <<Open(0), Close(0), Open(vtsN), <<"DVDOpenFile", vtsN>>,
                    <<"malloc", BLOCK_COUNT * DVD_VIDEO_LB_LEN>>>>]

(***************************************************************************)
(* dvdGetVobOffsetsNative.                                                 *)
(***************************************************************************)
\* faulty variant: the first chain is taken whatever the part-of-title table says
VobOffsetsFirstChain(vts, vtsTtn) ==
    IF ~IsNull(vts.vts_pgcit) /\ Deref(vts.vts_pgcit).nr_of_pgci_srp > 0
    THEN Deref(vts.vts_pgcit).pgci_srp[1]
    ELSE NULL

\* its copy of the program-chain resolution
VobOffsetsResolvePgc(vts, vtsTtn) ==
    LET viaPtt ==
            IF /\ ~IsNull(vts.vts_ptt_srpt)
               /\ vtsTtn > 0
               /\ vtsTtn <= Deref(vts.vts_ptt_srpt).nr_of_srpts
            THEN LET pgcn == Deref(vts.vts_ptt_srpt).title[vtsTtn] IN
                 IF /\ ~IsNull(vts.vts_pgcit)
                    /\ pgcn > 0
                    /\ pgcn <= Deref(vts.vts_pgcit).nr_of_pgci_srp
                 THEN Deref(vts.vts_pgcit).pgci_srp[pgcn]
                 ELSE NULL
            ELSE NULL
    IN IF /\ IsNull(viaPtt)
          /\ ~IsNull(vts.vts_pgcit)
          /\ Deref(vts.vts_pgcit).nr_of_pgci_srp > 0
       THEN Deref(vts.vts_pgcit).pgci_srp[1]
       ELSE viaPtt

\* "4. Collect cell offsets": first and last sector of every valid cell, flat
RECURSIVE CollectOffsets(_, _)
CollectOffsets(pgc, i) ==
    IF i >= pgc.nr_of_cells THEN <<>>
    ELSE (IF U32Le(pgc.cell_playback[i + 1].first_sector, pgc.cell_playback[i + 1].last_sector)
          THEN <<pgc.cell_playback[i + 1].first_sector, pgc.cell_playback[i + 1].last_sector>>
          ELSE <<>>)
         \o CollectOffsets(pgc, i + 1)

\* the array returned is [vtsN, firstSector, lastSector, firstSector, lastSector, ...]
dvdGetVobOffsets(disc, titleNumber) ==
    LET vmg == ifoOpen(disc, 0) IN
    IF IsNull(vmg) THEN Ret(NULL, <<Open(0)>>)
    ELSE IF IsNull(Deref(vmg).tt_srpt) THEN Ret(NULL, <<Open(0), Close(0)>>)
    ELSE LET numTitles == Deref(Deref(vmg).tt_srpt).nr_of_srpts IN
    IF titleNumber < 1 \/ titleNumber > numTitles THEN Ret(NULL, <<Open(0), Close(0)>>)
    ELSE LET vtsN == Deref(Deref(vmg).tt_srpt).title[titleNumber].title_set_nr
             vtsTtn == Deref(Deref(vmg).tt_srpt).title[titleNumber].vts_ttn
             vts == ifoOpen(disc, vtsN) IN
    IF IsNull(vts) THEN Ret(NULL, <<Open(0), Close(0), Open(vtsN)>>)
    ELSE LET pgc == VobOffsetsResolvePgc(Deref(vts), vtsTtn)
             done == <<Open(0), Close(0), Open(vtsN), Close(vtsN)>> IN
    IF IsNull(pgc) THEN Ret(NULL, done)
    ELSE LET offsets == CollectOffsets(Deref(pgc), 0) IN
    IF offsets = <<>> THEN Ret(NULL, done)
    ELSE Ret(Ptr(<<vtsN>> \o offsets), done)


(***************************************************************************)
(* Arguments the host may pass.                                            *)
(***************************************************************************)
HandleArgs == -1..(MaxHandles + 1)
VobHandleArgs == -1..(MaxVobHandles + 1)
TitleArgs == 0..MaxTitleArg
ChapterArgs == 0..MaxChapterArg

\* g_dvdHandles.find(handle) != g_dvdHandles.end()
Found(handle) == handle \in DOMAIN g_dvdHandles

\* the catalog behind it->second->dvd
DiscOf(handle) == discs[g_dvdHandles[handle].disc]

\* no dvdStreamToFdNative call is running on the calling thread
NoCallRunning == stream.pc \in {"idle", "returned"}

IdleStream ==
    [pc |-> "idle", handle |-> 0, titleNumber |-> 0, vtsN |-> 0,
     cells |-> <<>>, totalSectors |-> 0, cellIdx |-> 0,
     currentBlock |-> 0, lastSector |-> 0,
     blocksToRead |-> 0, blocksActuallyRead |-> 0, bytesRemaining |-> 0, writePtr |-> 0,
     totalBytesWritten |-> 0, sectorsRead |-> 0, lastProgressPercent |-> -1,
     progress |-> <<>>, visited |-> <<>>, skipped |-> <<>>,
     reads |-> 0, readFailures |-> 0, shortReads |-> 0, partialWrites |-> 0,
     slept |-> FALSE, event |-> "none", exit |-> "none"]

\* a call that ran to its return: what it was given, what it returned, and the
\* library calls it made
Call(op, args, r) ==
    [op |-> op, args |-> args, ret |-> r.ret, lib |-> r.lib, ub |-> r.ub, crashed |-> FALSE]

\* what a build can do once a call has executed undefined behaviour: the process
\* dies, or the call goes on and returns NULL or an object built from what it read
Returns(op, args, r) ==
    IF r.ub
    THEN \E outcome \in {"SIGSEGV", "null", "garbage"} :
            lastCall' = [op |-> op, args |-> args,
                         ret |-> IF outcome = "garbage" THEN Ptr([garbage |-> TRUE]) ELSE NULL,
                         lib |-> r.lib, ub |-> TRUE, crashed |-> (outcome = "SIGSEGV")]
    ELSE lastCall' = Call(op, args, r)

Registry == <<g_dvdHandles, g_nextHandleId, g_vobHandles, g_nextVobHandleId,
              liveReaders, liveSources>>

\* a call that only answers: the tables and the media stay as they are
Query(op, args, r) ==
    /\ NoCallRunning
    /\ Returns(op, args, r)
    /\ stream' = IdleStream
    /\ sink' = <<>>
    /\ UNCHANGED <<discs, Outside, Registry>>

(***************************************************************************)
(* The handle registry.                                                    *)
(***************************************************************************)
\* faulty variant: erase(begin(), ++it) takes every entry up to the one found
EraseThrough(handles, handle) ==
    [h \in {k \in DOMAIN handles : k > handle} |-> handles[h]]

\* g_dvdHandles.erase(it), g_vobHandles.erase(it): the entry found leaves the map
EraseHandle(handles, handle) == [h \in DOMAIN handles \ {handle} |-> handles[h]]

\* faulty variant: the new DvdHandle is dropped instead of stored
InsertNowhere(handles, handleId, entry) == handles

\* faulty variant: the counter stays where it is
SameId(id) == id

\* the counter after "g_nextHandleId++" and after "g_nextVobHandleId++"
NextId(id) == id + 1

\* g_dvdHandles[handleId] = std::move(handle)
InsertHandle(handles, handleId, entry) == (handleId :> entry) @@ handles

\* dvdOpenNative(path): pathOk is GetStringUTFChars' answer, backend the medium
\* DVDOpen finds at the path (0: DVDOpen returns NULL)
dvdOpenNative ==
    \E pathOk \in BOOLEAN, backend \in {0} \cup DOMAIN discs :
        /\ NoCallRunning
        /\ stream' = IdleStream
        /\ IF ~pathOk
           THEN /\ lastCall' = Call("open", <<>>, Ret(-1, <<>>))
                /\ UNCHANGED Registry
           ELSE IF backend = 0
           THEN /\ lastCall' = Call("open", <<>>, Ret(-1, <<<<"DVDOpen", 0>>>>))
                /\ UNCHANGED Registry
           ELSE /\ g_nextHandleId <= MaxHandles
                /\ LET handleId == g_nextHandleId IN
                   /\ g_nextHandleId' = NextId(g_nextHandleId)
                   /\ g_dvdHandles' =
                        InsertHandle(g_dvdHandles, handleId,
                                     [dvd |-> handleId, disc |-> backend, javaSource |-> FALSE])
                   /\ liveReaders' = liveReaders \cup {handleId}
                   /\ lastCall' = Call("open", <<>>, Ret(handleId, <<<<"DVDOpen", handleId>>>>))
                /\ UNCHANGED <<g_vobHandles, g_nextVobHandleId, liveSources>>
        /\ sink' = <<>>
        /\ UNCHANGED <<discs, Outside, Provider>>

\* dvdOpenStreamNative(blockDevice): backend is the medium DVDOpenStream reads
\* through the callbacks (0: DVDOpenStream returns NULL)
dvdOpenStreamNative ==
    \E backend \in {0} \cup DOMAIN discs :
        /\ NoCallRunning
        /\ stream' = IdleStream
        /\ IF backend = 0
           THEN /\ lastCall' = Call("openWithProvider", <<>>,
                                    Ret(-1, <<<<"new JavaDataSource", 0>>, <<"DVDOpenStream", 0>>,
                                              <<"delete JavaDataSource", 0>>>>))
                /\ UNCHANGED Registry
           ELSE /\ g_nextHandleId <= MaxHandles
                /\ LET handleId == g_nextHandleId IN
                   /\ g_nextHandleId' = NextId(g_nextHandleId)
                   /\ g_dvdHandles' =
                        InsertHandle(g_dvdHandles, handleId,
                                     [dvd |-> handleId, disc |-> backend, javaSource |-> TRUE])
                   /\ liveReaders' = liveReaders \cup {handleId}
                   /\ liveSources' = liveSources \cup {handleId}
                   /\ lastCall' = Call("openWithProvider", <<>>,
                                       Ret(handleId, <<<<"new JavaDataSource", handleId>>,
                                                       <<"DVDOpenStream", handleId>>>>))
                /\ UNCHANGED <<g_vobHandles, g_nextVobHandleId>>
        /\ sink' = <<>>
        /\ UNCHANGED <<discs, Outside, Provider>>

\* faulty variant: the source is deleted while the reader that calls through
\* it is still open
DeletesSourceFirst(entry) ==
    (IF entry.javaSource THEN <<<<"delete JavaDataSource", entry.dvd>>>> ELSE <<>>)
    \o <<<<"DVDClose", entry.dvd>>>>

\* ~DvdHandle(): "if (dvd) DVDClose(dvd)", then "if (javaSource) delete javaSource"
DvdHandleDtor(entry) ==
    <<<<"DVDClose", entry.dvd>>>>
    \o (IF entry.javaSource THEN <<<<"delete JavaDataSource", entry.dvd>>>> ELSE <<>>)

\* the objects that the calls of lib named by name were made on
Released(lib, name) == {lib[i][2] : i \in {j \in DOMAIN lib : lib[j][1] = name}}

\* dvdCloseNative(handle)
dvdCloseNative ==
    \E handle \in HandleArgs :
        /\ NoCallRunning
        /\ stream' = IdleStream
        /\ IF handle <= 0 \/ ~Found(handle)
           THEN /\ lastCall' = Call("close", <<handle>>, Ret(0, <<>>))
                /\ UNCHANGED Registry
           ELSE LET lib == DvdHandleDtor(g_dvdHandles[handle]) IN
                /\ g_dvdHandles' = EraseHandle(g_dvdHandles, handle)
                /\ liveReaders' = liveReaders \ Released(lib, "DVDClose")
                /\ liveSources' = liveSources \ Released(lib, "delete JavaDataSource")
                /\ lastCall' = Call("close", <<handle>>, Ret(0, lib))
                /\ UNCHANGED <<g_nextHandleId, g_vobHandles, g_nextVobHandleId>>
        /\ sink' = <<>>
        /\ UNCHANGED <<discs, Outside, Provider>>


\* dvdOpenVobFileNative(handle, vtsN)
dvdOpenVobFileNative(H, V, maxId) ==
    \E handle \in H, vtsN \in V :
        /\ NoCallRunning
        /\ stream' = IdleStream
        /\ IF ~Found(handle)
           THEN /\ lastCall' = Call("openContentSet", <<handle, vtsN>>, Ret(-1, <<>>))
                /\ UNCHANGED <<g_vobHandles, g_nextVobHandleId>>
           ELSE IF ~DVDOpenFile(DiscOf(handle), vtsN)
           THEN /\ lastCall' = Call("openContentSet", <<handle, vtsN>>,
                                    Ret(-1, <<<<"DVDOpenFile", vtsN>>>>))
                /\ UNCHANGED <<g_vobHandles, g_nextVobHandleId>>
           ELSE /\ g_nextVobHandleId <= maxId
                /\ LET vobHandleId == g_nextVobHandleId IN
                   /\ g_nextVobHandleId' = NextId(g_nextVobHandleId)
                   /\ g_vobHandles' =
                        (vobHandleId :> [vtsN |-> vtsN, dvd |-> g_dvdHandles[handle].dvd,
                                         disc |-> g_dvdHandles[handle].disc])
                        @@ g_vobHandles
                   /\ lastCall' = Call("openContentSet", <<handle, vtsN>>,
                                       Ret(vobHandleId, <<<<"DVDOpenFile", vtsN>>,
                                                          <<"DVDFileSize", vtsN>>>>))
        /\ sink' = <<>>
        /\ UNCHANGED <<discs, Outside, g_dvdHandles, g_nextHandleId, liveReaders, liveSources>>

\* dvdCloseVobFileNative(vobHandle)
dvdCloseVobFileNative(V) ==
    \E vobHandle \in V :
        /\ NoCallRunning
        /\ stream' = IdleStream
        /\ IF vobHandle \notin DOMAIN g_vobHandles
           THEN /\ lastCall' = Call("closeContentSet", <<vobHandle>>, Ret(0, <<>>))
                /\ UNCHANGED g_vobHandles
           ELSE /\ g_vobHandles' = EraseHandle(g_vobHandles, vobHandle)
                /\ lastCall' = Call("closeContentSet", <<vobHandle>>,
                                    Ret(0, <<<<"DVDCloseFile", g_vobHandles[vobHandle].vtsN>>>>))
        /\ sink' = <<>>
        /\ UNCHANGED <<discs, Outside, g_dvdHandles, g_nextHandleId, g_nextVobHandleId,
                       liveReaders, liveSources>>

(***************************************************************************)
(* The catalog entry points: the handle lookup, then the query.  H, T and  *)
(* C are the handles, title numbers and chapter numbers the host passes.   *)
(***************************************************************************)
\* faulty variant: an unknown handle is answered like a disc without titles
TitleCountOfUnknownIsZero(H) ==
    \E handle \in H :
        Query("titleCount", <<handle>>,
              IF ~Found(handle) THEN Ret(0, <<>>) ELSE dvdGetTitleCount(DiscOf(handle)))

dvdGetTitleCountNative(H) ==
    \E handle \in H :
        Query("titleCount", <<handle>>,
              IF ~Found(handle) THEN Ret(-1, <<>>) ELSE dvdGetTitleCount(DiscOf(handle)))

dvdReadTitleNative(H, T) ==
    \E handle \in H, titleNumber \in T :
        Query("titleInfo", <<handle, titleNumber>>,
              IF ~Found(handle) THEN Ret(NULL, <<>>)
              ELSE dvdReadTitle(DiscOf(handle), titleNumber))

dvdGetAudioTracksNative(H, T) ==
    \E handle \in H, titleNumber \in T :
        Query("audioTracks", <<handle, titleNumber>>,
              IF ~Found(handle) THEN Ret(NULL, <<>>)
              ELSE dvdGetAudioTracks(DiscOf(handle), titleNumber))

dvdGetSubtitleTracksNative(H, T) ==
    \E handle \in H, titleNumber \in T :
        Query("subtitleTracks", <<handle, titleNumber>>,
              IF ~Found(handle) THEN Ret(NULL, <<>>)
              ELSE dvdGetSubtitleTracks(DiscOf(handle), titleNumber))

dvdReadChapterNative(H, T, C) ==
    \E handle \in H, titleNumber \in T, chapterNumber \in C :
        Query("chapterInfo", <<handle, titleNumber, chapterNumber>>,
              IF ~Found(handle) THEN Ret(NULL, <<>>)
              ELSE dvdReadChapter(DiscOf(handle), titleNumber, chapterNumber))

dvdGetNameNative(H) ==
    \E handle \in H :
        Query("discName", <<handle>>,
              IF ~Found(handle) THEN Ret(NULL, <<>>) ELSE dvdGetName(DiscOf(handle)))

dvdGetVobOffsetsNative(H, T) ==
    \E handle \in H, titleNumber \in T :
        Query("vobSectorRanges", <<handle, titleNumber>>,
              IF ~Found(handle) THEN Ret(NULL, <<>>)
              ELSE dvdGetVobOffsets(DiscOf(handle), titleNumber))


(***************************************************************************)
(* dvdStreamToFdNative.  The call is a process: its entry runs up to the   *)
(* read loop, and then each step is one pass of the cell loop's head, one  *)
(* DVDReadBlocks or one write(outFd, ...).  The library and the consumer   *)
(* answer as they please.                                                  *)
(*                                                                         *)
(* The sink holds the accepted bytes as maximal runs of bytes that follow  *)
(* one another in a title set's VOB: n bytes from byte off of sector.      *)
(***************************************************************************)
RunEndSector(run) == run.sector + ((run.off + run.n) \div DVD_VIDEO_LB_LEN)
RunEndOff(run) == (run.off + run.n) % DVD_VIDEO_LB_LEN

\* the consumer takes k bytes that start at byte off of sector
SinkAppend(snk, vts, sector, off, k) ==
    IF /\ snk # <<>>
       /\ snk[Len(snk)].vts = vts
       /\ RunEndSector(snk[Len(snk)]) = sector
       /\ RunEndOff(snk[Len(snk)]) = off
    THEN [snk EXCEPT ![Len(snk)].n = @ + k]
    ELSE Append(snk, [vts |-> vts, sector |-> sector, off |-> off, n |-> k])

\* faulty variant: the bytes of the batches read are returned, not the bytes written
StreamReturnsBytesRead(st) == st.sectorsRead * DVD_VIDEO_LB_LEN

\* "finished:" free(buffer); DVDCloseFile(vob); ifoClose(vts); return totalBytesWritten
StreamReturnValue(st) == st.totalBytesWritten

\* faulty variant: the title set's data file is left open
StreamFinishedLeavesFile(st, exit) ==
    /\ stream' = [st EXCEPT !.pc = "returned", !.exit = exit]
    /\ lastCall' = [lastCall EXCEPT
                      !.ret = StreamReturnValue(st),
                      !.lib = @ \o <<<<"free", 0>>, Close(st.vtsN)>>]

StreamFinished(st, exit) ==
    /\ stream' = [st EXCEPT !.pc = "returned", !.exit = exit]
    /\ lastCall' = [lastCall EXCEPT
                      !.ret = StreamReturnValue(st),
                      !.lib = @ \o <<<<"free", 0>>, <<"DVDCloseFile", st.vtsN>>,
                                     Close(st.vtsN)>>]

\* faulty variant: the loop ends one sector early
WhileTestStrict(st) ==
    IF U32Lt(st.currentBlock, st.lastSector)
    THEN [st EXCEPT !.pc = "read"]
    ELSE [st EXCEPT !.pc = "cell", !.cellIdx = @ + 1]

\* the test of "while (currentBlock <= lastSector)", and the cell loop's cellIdx++
\* when it fails
WhileTest(st) ==
    IF U32Le(st.currentBlock, st.lastSector)
    THEN [st EXCEPT !.pc = "read"]
    ELSE [st EXCEPT !.pc = "cell", !.cellIdx = @ + 1]

\* "Progress reporting (every 5%)"
ProgressReport(st) ==
    IF st.totalSectors > 0
    THEN LET progressPercent == (st.sectorsRead * 100) \div st.totalSectors IN
         IF progressPercent >= st.lastProgressPercent + 5
         THEN [st EXCEPT !.lastProgressPercent = progressPercent,
                         !.progress = Append(@, progressPercent)]
         ELSE st
    ELSE st

\* the entry, through the allocation of the batch buffer
dvdStreamToFdNative(H, T) ==
    \E handle \in H, titleNumber \in T, mallocOk \in BOOLEAN :
        /\ NoCallRunning
        /\ sink' = <<>>
        /\ IF ~Found(handle)
           THEN /\ lastCall' = Call("streamTitle", <<handle, titleNumber>>, Ret(-1, <<>>))
                /\ stream' = IdleStream
           ELSE LET s == StreamSetup(DiscOf(handle), titleNumber, mallocOk) IN
                IF ~s.ok
                THEN /\ lastCall' = Call("streamTitle", <<handle, titleNumber>>,
                                         Ret(s.ret, s.lib))
                     /\ stream' = IdleStream
                ELSE /\ lastCall' = Call("streamTitle", <<handle, titleNumber>>,
                                         Ret(0, s.lib))
                     /\ stream' = [IdleStream EXCEPT
                                     !.pc = "cell", !.handle = handle,
                                     !.titleNumber = titleNumber, !.vtsN = s.vtsN,
                                     !.cells = s.pgc.cell_playback,
                                     !.totalSectors = s.totalSectors]
        /\ UNCHANGED <<discs, Outside, Registry>>

\* faulty variant: the test of the sector range is left out
CellNeverCorrupt(cell) == FALSE

\* "if (lastSector < firstSector)": the cell is skipped
CellIsCorrupt(cell) == U32Lt(cell.last_sector, cell.first_sector)

\* the head of "for (int cellIdx = 0; cellIdx < pgc->nr_of_cells; cellIdx++)"
StreamCell ==
    /\ stream.pc = "cell"
    /\ IF stream.cellIdx >= Len(stream.cells)
       THEN StreamFinished(stream, "completed")
       ELSE LET cell == stream.cells[stream.cellIdx + 1] IN
            /\ stream' =
                 IF CellIsCorrupt(cell)
                 THEN [stream EXCEPT !.skipped = Append(@, stream.cellIdx),
                                     !.cellIdx = @ + 1]
                 ELSE WhileTest([stream EXCEPT
                                   !.currentBlock = cell.first_sector,
                                   !.lastSector = cell.last_sector,
                                   !.visited = Append(@, <<cell.first_sector,
                                                           cell.last_sector>>)])
            /\ UNCHANGED lastCall
    /\ UNCHANGED <<discs, Outside, Registry, sink>>

\* what DVDReadBlocks(vob, currentBlock, blocksToRead, buffer) may return
ReadOutcomes(st, blocksToRead) ==
    {blocksToRead}
    \cup (IF st.readFailures < MaxReadFailures THEN {-1, 0} ELSE {})
    \cup (IF st.shortReads < MaxShortReads /\ blocksToRead > 1 THEN {1} ELSE {})

\* faulty variant: a failed read gives up the rest of the cell
AfterReadErrorLeavesCell(st) ==
    [st EXCEPT !.pc = "cell", !.cellIdx = @ + 1, !.event = "readError"]

\* "if (blocksActuallyRead <= 0) { LOGE(...); currentBlock++; continue; }"
AfterReadError(st) == WhileTest([st EXCEPT !.currentBlock = @ + 1, !.event = "readError"])

\* one DVDReadBlocks of the while loop; blocksRemaining is a uint32_t, and the
\* call is followed through its first MaxReads reads
StreamRead ==
    /\ stream.pc = "read"
    /\ stream.reads < MaxReads
    /\ LET blocksRemaining == stream.lastSector - stream.currentBlock + 1
           blocksToRead == IF U32Lt(BLOCK_COUNT, blocksRemaining) THEN BLOCK_COUNT
                           ELSE blocksRemaining
       IN \E blocksActuallyRead \in ReadOutcomes(stream, blocksToRead) :
            LET st == [stream EXCEPT
                         !.reads = @ + 1,
                         !.blocksToRead = blocksToRead,
                         !.event = "read",
                         !.readFailures = IF blocksActuallyRead <= 0 THEN @ + 1 ELSE @,
                         !.shortReads = IF 0 < blocksActuallyRead
                                           /\ blocksActuallyRead < blocksToRead
                                        THEN @ + 1 ELSE @]
            IN stream' =
                 IF blocksActuallyRead <= 0
                 THEN AfterReadError(st)
                 ELSE [st EXCEPT !.pc = "write",
                                 !.blocksActuallyRead = blocksActuallyRead,
                                 !.bytesRemaining = blocksActuallyRead * DVD_VIDEO_LB_LEN,
                                 !.writePtr = 0]
    /\ UNCHANGED <<discs, Outside, Registry, lastCall, sink>>


\* what write(outFd, writePtr, bytesRemaining) may answer: an errno with -1, zero
\* bytes, or the number of bytes the consumer took
WriteOutcomes(st) ==
    {[errno |-> e, n |-> -1] : e \in {"EPIPE", "EAGAIN", "EIO"}}
    \cup {[errno |-> "none", n |-> k] : k \in {0, st.bytesRemaining}}
    \cup (IF st.partialWrites < MaxPartialWrites
          THEN {[errno |-> "none", n |-> st.bytesRemaining \div 2]}
          ELSE {})

\* faulty variant: after a partial write writePtr stays at the head of the batch
AfterWriteKeepsPtr(st, bytesWritten) ==
    LET w == [st EXCEPT !.totalBytesWritten = @ + bytesWritten,
                        !.bytesRemaining = @ - bytesWritten,
                        !.partialWrites = IF bytesWritten < st.bytesRemaining
                                          THEN @ + 1 ELSE @,
                        !.event = "written"]
    IN IF w.bytesRemaining > 0 THEN w
       ELSE WhileTest(ProgressReport([w EXCEPT
                                        !.currentBlock = @ + st.blocksActuallyRead,
                                        !.sectorsRead = @ + st.blocksActuallyRead]))

\* totalBytesWritten += bytesWritten; bytesRemaining -= bytesWritten; writePtr += ...
\* and, once the batch is out, the end of the while body
AfterWrite(st, bytesWritten) ==
    LET w == [st EXCEPT !.totalBytesWritten = @ + bytesWritten,
                        !.bytesRemaining = @ - bytesWritten,
                        !.writePtr = @ + bytesWritten,
                        !.partialWrites = IF bytesWritten < st.bytesRemaining
                                          THEN @ + 1 ELSE @,
                        !.event = "written"]
    IN IF w.bytesRemaining > 0 THEN w
       ELSE WhileTest(ProgressReport([w EXCEPT
                                        !.currentBlock = @ + st.blocksActuallyRead,
                                        !.sectorsRead = @ + st.blocksActuallyRead]))

\* faulty variant: would-block is treated like any other error
OnWriteErrorAlwaysFinishes(errno) == "finished"

\* what the call does with a write that failed: "retry" the write (after
\* usleep(1000)), or leave the loops through "goto finished"
OnWriteError(errno) ==
    IF errno = "EPIPE" THEN "finished"
    ELSE IF errno = "EAGAIN" THEN "retry"
    ELSE "finished"

\* one write of "while (bytesRemaining > 0)"
StreamWrite ==
    /\ stream.pc = "write"
    /\ \E w \in WriteOutcomes(stream) :
         IF w.n < 0
         THEN IF OnWriteError(w.errno) = "retry"
              THEN /\ stream' = [stream EXCEPT !.event = w.errno, !.slept = TRUE]
                   /\ UNCHANGED <<lastCall, sink>>
              ELSE /\ StreamFinished([stream EXCEPT !.event = w.errno], w.errno)
                   /\ UNCHANGED sink
         ELSE IF w.n = 0
         THEN /\ StreamFinished([stream EXCEPT !.event = "zero"], "zero")
              /\ UNCHANGED sink
         ELSE /\ stream' = AfterWrite(stream, w.n)
              /\ sink' = SinkAppend(sink, stream.vtsN,
                                    stream.currentBlock + (stream.writePtr \div DVD_VIDEO_LB_LEN),
                                    stream.writePtr % DVD_VIDEO_LB_LEN, w.n)
              /\ UNCHANGED lastCall
    /\ UNCHANGED <<discs, Outside, Registry>>


(***************************************************************************)
(* n * DVD_VIDEO_LB_LEN as the code computes it, a product of two ints: a   *)
(* product beyond INT_MAX overflows, and the build keeps its low 32 bits.   *)
(***************************************************************************)
SectorBytes(n) ==
    LET wrap == 2 * (INT_MAX \div DVD_VIDEO_LB_LEN + 1)
        m == n % wrap
    IN IF m > INT_MAX \div DVD_VIDEO_LB_LEN
       THEN (m - wrap) * DVD_VIDEO_LB_LEN
       ELSE m * DVD_VIDEO_LB_LEN

(***************************************************************************)
(* dvdReadVobBlocksNative, after the lookup of the VobHandle: vob is the    *)
(* handle's entry, arraySize the length of the caller's array, blocksRead   *)
(* what DVDReadBlocks answers.  data is what the caller's array then holds, *)
(* lib the calls made, the read with its count and its answer.  A          *)
(* bufferSize below zero is, as a size_t, more than a 64-bit build can     *)
(* allocate; where malloc succeeds tempBuffer holds bufferSize modulo 2^32 *)
(* bytes, and a read of more sectors runs over it.                         *)
(***************************************************************************)
dvdReadVobBlocks(vob, block, count, arraySize, mallocOk, blocksRead) ==
    IF count <= 0
    THEN [ret |-> -1, data |-> <<>>, lib |-> <<>>, ub |-> FALSE, overrun |-> FALSE]
    ELSE LET bufferSize == SectorBytes(count)
             overflow == count > INT_MAX \div DVD_VIDEO_LB_LEN
             tempSectors == count % (2 * (INT_MAX \div DVD_VIDEO_LB_LEN + 1))
         IN IF ~mallocOk
            THEN [ret |-> -1, data |-> <<>>, lib |-> <<<<"malloc:NULL", bufferSize>>>>,
                  ub |-> overflow, overrun |-> FALSE]
            ELSE LET lib == <<<<"malloc", bufferSize>>, <<"DVDReadBlocks", count, blocksRead>>>>
                 IN IF blocksRead <= 0
                    THEN [ret |-> IF blocksRead = 0 THEN 0 ELSE -1, data |-> <<>>,
                          lib |-> lib, ub |-> overflow, overrun |-> FALSE]
                    ELSE LET bytesRead == Min(SectorBytes(blocksRead), arraySize)
                         IN [ret |-> bytesRead,
                             data |-> IF bytesRead > 0
                                      THEN <<[vts |-> vob.vtsN, sector |-> block,
                                              off |-> 0, n |-> bytesRead]>>
                                      ELSE <<>>,
                             lib |-> lib \o <<<<"SetByteArrayRegion", bytesRead>>>>,
                             ub |-> overflow \/ blocksRead > tempSectors,
                             overrun |-> blocksRead > tempSectors]

\* dvdReadVobBlocksNative(vobHandle, block, count, buffer): the read goes through
\* the dvd_file_t of the entry, which points into the reader it was opened on;
\* once that reader is closed the read is a use of freed memory
dvdReadVobBlocksNative(V, C, A) ==
    \E vobHandle \in V, count \in C, arraySize \in A :
        /\ NoCallRunning
        /\ stream' = IdleStream
        /\ sink' = <<>>
        /\ LET args == <<vobHandle, 0, count, arraySize>> IN
           IF vobHandle \notin DOMAIN g_vobHandles
           THEN lastCall' = Call("readBlocks", args, Ret(-1, <<>>))
           ELSE \E mallocOk \in BOOLEAN :
                \E blocksRead \in IF mallocOk /\ count > 0 THEN {-1, 0, 1, count} ELSE {0} :
                   LET vob == g_vobHandles[vobHandle]
                       r == dvdReadVobBlocks(vob, 0, count, arraySize, mallocOk, blocksRead)
                       freed == /\ vob.dvd \notin liveReaders
                                /\ \E i \in DOMAIN r.lib : r.lib[i][1] = "DVDReadBlocks"
                   IN \E crashed \in IF r.overrun \/ freed THEN BOOLEAN ELSE {FALSE} :
                         lastCall' = [op |-> "readBlocks", args |-> args, ret |-> r.ret,
                                      lib |-> r.lib, ub |-> r.ub \/ freed,
                                      crashed |-> crashed]
        /\ UNCHANGED <<discs, Outside, Registry>>

(***************************************************************************)
(* The provider callbacks libdvdread is given by dvdOpenStreamNative, and  *)
(* the JavaDataSource they work on.  The JavaVM and the Java block device  *)
(* are the environment: AttachCurrentThread, the array allocations, the    *)
(* method lookups and the device's methods answer as they please.  g_vm is *)
(* set by JNI_OnLoad before any JavaDataSource exists.                     *)
(*                                                                         *)
(* A callback's record lists the JavaVM and JNIEnv functions it called, in *)
(* order; an AttachCurrentThread that failed is listed with its result.    *)
(***************************************************************************)
Threads == {"java", "native"}

\* the state of everything but the provider callbacks
Engine == <<discs, Registry, lastCall, stream, sink, inFlight, vlc>>

\* GetEnv, and AttachCurrentThread when GetEnv did not return JNI_OK
Enter(wasAttached, attachOk) ==
    IF wasAttached THEN <<"GetEnv">>
    ELSE IF attachOk THEN <<"GetEnv", "AttachCurrentThread">>
    ELSE <<"GetEnv", "AttachCurrentThread:JNI_ERR">>

\* faulty variant: the thread is left attached
LeaveAttached(attached) == <<>>

\* "if (attached) { g_vm->DetachCurrentThread(); }"
Leave(attached) == IF attached THEN <<"DetachCurrentThread">> ELSE <<>>

\* whether the calling thread is attached to the JavaVM after the calls of jni
RECURSIVE AttachedAfter(_, _)
AttachedAfter(was, jni) ==
    IF jni = <<>> THEN was
    ELSE AttachedAfter(IF jni[1] = "AttachCurrentThread" THEN TRUE
                       ELSE IF jni[1] = "DetachCurrentThread" THEN FALSE
                       ELSE was,
                       Tail(jni))

Callback(op, thread, args, r) ==
    [op |-> op, thread |-> thread, args |-> args, ret |-> r.ret, jni |-> r.jni,
     call |-> r.call, copied |-> r.copied, moved |-> r.moved, ub |-> r.ub,
     crashed |-> r.crashed]

CbRet(ret, jni) ==
    [ret |-> ret, jni |-> jni, call |-> NULL, copied |-> 0, moved |-> {}, ub |-> FALSE,
     crashed |-> FALSE, position |-> NULL]

\* JavaDataSource(env, device): found is GetMethodID's answer for getBlockSize,
\* size what the device's getBlockSize returns
NewJavaDataSource(found, size) ==
    [position |-> 0, blockSize |-> IF found THEN size ELSE 2048]

\* ~JavaDataSource()
DestroyJavaDataSource(wasAttached, attachOk) ==
    LET attached == ~wasAttached
        env == wasAttached \/ attachOk
    IN CbRet(0, Enter(wasAttached, attachOk)
                \o (IF env THEN <<"DeleteGlobalRef">> ELSE <<>>)
                \o Leave(attached))

\* faulty variant: success is returned and the cursor stays
JavaSeekKeepsCursor(source, pos) ==
    IF IsNull(source) THEN CbRet(-1, <<>>) ELSE CbRet(0, <<>>)

\* JavaSeekCallback(stream, pos)
JavaSeek(source, pos) ==
    IF IsNull(source) THEN CbRet(-1, <<>>)
    ELSE [CbRet(0, <<>>) EXCEPT !.position = Ptr(pos)]

\* faulty variant: no block read is reported instead of an error
JavaReadvReadsNothing(source, blocks) == CbRet(0, <<>>)

\* JavaReadvCallback(stream, iovec, blocks)
JavaReadv(source, blocks) == CbRet(-1, <<>>)

\* JavaReadCallback(stream, buffer, size).  e holds the environment's answers:
\* attachOk, arrayOk (NewByteArray), methodOk (GetMethodID), bytesRead and
\* exception (the device's read), and div, what a division by a block size of
\* zero does: "SIGFPE", or "zero" for a quotient of 0
JavaRead(source, wasAttached, size, e) ==
    IF IsNull(source) THEN CbRet(-1, <<>>)
    ELSE IF ~wasAttached /\ ~e.attachOk THEN CbRet(-1, Enter(wasAttached, e.attachOk))
    ELSE
    LET attached == ~wasAttached
        enter == Enter(wasAttached, e.attachOk)
        blockSize == Deref(source).blockSize
        startByte == Deref(source).position
        startLba == IF blockSize = 0 THEN 0 ELSE startByte \div blockSize
        lookup == enter \o <<"NewByteArray", "GetObjectClass", "GetMethodID">>
        called == lookup \o <<"CallIntMethod", "ExceptionCheck">>
        call == Ptr([method |-> "read", lba |-> startLba, length |-> size,
                     answer |-> IF e.exception THEN NULL ELSE Ptr(e.bytesRead)])
    IN
    IF ~e.arrayOk THEN CbRet(-1, enter \o <<"NewByteArray">> \o Leave(attached))
    ELSE IF blockSize = 0 /\ e.div = "SIGFPE"
    THEN [CbRet(-1, enter \o <<"NewByteArray">>) EXCEPT !.ub = TRUE, !.crashed = TRUE]
    ELSE IF ~e.methodOk
    THEN [CbRet(-1, lookup \o <<"DeleteLocalRef">> \o Leave(attached))
            EXCEPT !.ub = (blockSize = 0)]
    ELSE IF e.exception
    THEN [CbRet(-1, called \o <<"ExceptionDescribe", "ExceptionClear", "DeleteLocalRef">>
                    \o Leave(attached))
            EXCEPT !.call = call, !.ub = (blockSize = 0)]
    ELSE IF e.bytesRead > 0
    THEN [CbRet(e.bytesRead, called \o <<"GetByteArrayRegion", "DeleteLocalRef">>
                             \o Leave(attached))
            EXCEPT !.call = call, !.ub = (blockSize = 0),
                   !.copied = IF e.bytesRead <= size THEN e.bytesRead ELSE 0,
                   !.position = Ptr(startByte + e.bytesRead)]
    ELSE [CbRet(IF e.bytesRead = 0 THEN 0 ELSE -1,
                called \o <<"DeleteLocalRef">> \o Leave(attached))
            EXCEPT !.call = call, !.ub = (blockSize = 0)]

\* faulty variant: SEND_KEY2 is not taken as an operation that sends
SendOpsWithoutKey2 == {17}

\* the operations that send data to the drive: "SEND_CHALLENGE or SEND_KEY2"
SendOps == {17, 18}

\* JavaIoctlCallback(stream, op, data, data_size, agid, lba).  hasData is
\* "data && data_size > 0", hasAgid is "agid"; e holds the environment's
\* answers: attachOk, methodOk (GetMethodID), arrayOk (NewByteArray), agidOk
\* (NewIntArray), result and exception (the device's cssIoctl)
JavaIoctl(source, wasAttached, op, hasData, hasAgid, lba, e) ==
    IF IsNull(source) THEN CbRet(-1, <<>>)
    ELSE IF ~wasAttached /\ ~e.attachOk THEN CbRet(-1, Enter(wasAttached, e.attachOk))
    ELSE
    LET attached == ~wasAttached
        lookup == Enter(wasAttached, e.attachOk) \o <<"GetObjectClass", "GetMethodID">>
        javaData == hasData /\ e.arrayOk
        agidArray == e.agidOk
        dataIn == javaData /\ op \in SendOps
        agidIn == agidArray /\ hasAgid
        dataOut == ~e.exception /\ e.result = 0 /\ javaData /\ op \notin SendOps
        agidOut == ~e.exception /\ e.result = 0 /\ agidArray /\ hasAgid
    IN
    IF ~e.methodOk THEN CbRet(-1, lookup \o Leave(attached))
    ELSE [CbRet(IF e.exception THEN -1 ELSE e.result,
                lookup
                \o (IF hasData THEN <<"NewByteArray">> ELSE <<>>)
                \o (IF dataIn THEN <<"SetByteArrayRegion">> ELSE <<>>)
                \o <<"NewIntArray">>
                \o (IF agidIn THEN <<"SetIntArrayRegion">> ELSE <<>>)
                \o <<"CallIntMethod", "ExceptionCheck">>
                \o (IF e.exception THEN <<"ExceptionDescribe", "ExceptionClear">> ELSE <<>>)
                \o (IF dataOut THEN <<"GetByteArrayRegion">> ELSE <<>>)
                \o (IF agidOut THEN <<"GetIntArrayRegion">> ELSE <<>>)
                \o (IF javaData THEN <<"DeleteLocalRef">> ELSE <<>>)
                \o (IF agidArray THEN <<"DeleteLocalRef">> ELSE <<>>)
                \o Leave(attached))
            EXCEPT !.call = Ptr([method |-> "cssIoctl", op |-> op, data |-> javaData,
                                 agid |-> agidArray, lba |-> lba]),
                   !.moved = (IF dataIn THEN {"dataIn"} ELSE {})
                             \cup (IF agidIn THEN {"agidIn"} ELSE {})
                             \cup (IF dataOut THEN {"dataOut"} ELSE {})
                             \cup (IF agidOut THEN {"agidOut"} ELSE {})]

\* what the callbacks may be given, and what the device may answer
Positions == {0, 100}
ReadSizes == {DVD_VIDEO_LB_LEN}
BlockSizes == {0, 512, DVD_VIDEO_LB_LEN}
IoctlOps == {16, 17, 18}

\* the answers a read callback can meet: each is asked for only while the
\* answers before it let the callback go on
ReadGoesWell ==
    [attachOk |-> TRUE, arrayOk |-> TRUE, methodOk |-> TRUE, exception |-> FALSE,
     bytesRead |-> 0, div |-> "zero"]

ReadAnswers(wasAttached, blockSize, size) ==
    (IF wasAttached THEN {} ELSE {[ReadGoesWell EXCEPT !.attachOk = FALSE]})
    \cup (IF blockSize = 0 THEN {[ReadGoesWell EXCEPT !.div = "SIGFPE"]} ELSE {})
    \cup {[ReadGoesWell EXCEPT !.arrayOk = FALSE],
          [ReadGoesWell EXCEPT !.methodOk = FALSE],
          [ReadGoesWell EXCEPT !.exception = TRUE]}
    \cup {[ReadGoesWell EXCEPT !.bytesRead = n] : n \in {-1, 0, size \div 2, size}}

IoctlGoesWell ==
    [attachOk |-> TRUE, methodOk |-> TRUE, arrayOk |-> TRUE, agidOk |-> TRUE,
     exception |-> FALSE, result |-> 0]

IoctlAnswers(wasAttached, hasData) ==
    (IF wasAttached THEN {} ELSE {[IoctlGoesWell EXCEPT !.attachOk = FALSE]})
    \cup {[IoctlGoesWell EXCEPT !.methodOk = FALSE]}
    \cup {[IoctlGoesWell EXCEPT !.arrayOk = a, !.agidOk = g, !.exception = (r = "thrown"),
                                !.result = IF r = "failed" THEN -1 ELSE 0] :
            a \in (IF hasData THEN BOOLEAN ELSE {TRUE}), g \in BOOLEAN,
            r \in {"done", "failed", "thrown"}}

\* a callback has returned (or, after undefined behaviour, ended the process)
Returned(op, thread, args, r) ==
    /\ lastCallback' = Callback(op, thread, args, r)
    /\ attachedThreads' =
         IF AttachedAfter(thread \in attachedThreads, r.jni)
         THEN attachedThreads \cup {thread}
         ELSE attachedThreads \ {thread}
    /\ UNCHANGED Engine

\* the stream pointer libdvdread passes: the JavaDataSource it was opened with
StreamArgs == {NULL, javaSource}

\* the JavaDataSource exists, and no callback has ended the process
SourceInUse == ~IsNull(javaSource) /\ ~lastCallback.crashed

\* new JavaDataSource(env, blockDevice) in dvdOpenStreamNative, on the host's thread
CreateJavaDataSource ==
    \E found \in BOOLEAN, size \in BlockSizes :
        /\ IsNull(javaSource)
        /\ "java" \in attachedThreads
        /\ javaSource' = Ptr(NewJavaDataSource(found, size))
        /\ lastCallback' = Callback("new", "java", <<>>,
                                    CbRet(0, <<"NewGlobalRef", "GetObjectClass", "GetMethodID">>
                                             \o (IF found THEN <<"CallIntMethod">> ELSE <<>>)))
        /\ UNCHANGED <<attachedThreads, Engine>>

\* delete javaSource
DeleteJavaDataSource ==
    \E thread \in Threads, attachOk \in BOOLEAN :
        /\ SourceInUse
        /\ javaSource' = NULL
        /\ Returned("delete", thread, <<>>,
                    DestroyJavaDataSource(thread \in attachedThreads, attachOk))

\* the source after a callback that returned r
SourceAfter(source, r) ==
    IF IsNull(r.position) THEN source
    ELSE Ptr([Deref(source) EXCEPT !.position = Deref(r.position)])

JavaSeekCallback ==
    \E thread \in Threads, source \in StreamArgs, pos \in Positions :
        /\ SourceInUse
        /\ LET r == JavaSeek(source, pos) IN
           /\ javaSource' = SourceAfter(javaSource, r)
           /\ Returned("seek", thread, <<pos>>, r)

JavaReadCallback ==
    \E thread \in Threads, source \in StreamArgs, size \in ReadSizes :
        \E e \in IF IsNull(source) \/ IsNull(javaSource) THEN {ReadGoesWell}
                  ELSE ReadAnswers(thread \in attachedThreads, Deref(source).blockSize, size) :
            /\ SourceInUse
            /\ LET r == JavaRead(source, thread \in attachedThreads, size, e) IN
               /\ ~IsNull(r.position) => Deref(r.position) <= MaxPosition
               /\ javaSource' = SourceAfter(javaSource, r)
               /\ Returned("read", thread, <<size>>, r)

JavaReadvCallback ==
    \E thread \in Threads, source \in StreamArgs, blocks \in {1} :
        /\ SourceInUse
        /\ UNCHANGED javaSource
        /\ Returned("readVector", thread, <<blocks>>, JavaReadv(source, blocks))

JavaIoctlCallback ==
    \E thread \in Threads, source \in StreamArgs, lba \in {0} :
      \E op \in IF IsNull(source) THEN {16} ELSE IoctlOps,
         hasData \in IF IsNull(source) THEN {TRUE} ELSE BOOLEAN,
         hasAgid \in IF IsNull(source) THEN {TRUE} ELSE BOOLEAN :
        \E e \in IF IsNull(source) THEN {IoctlGoesWell}
                  ELSE IoctlAnswers(thread \in attachedThreads, hasData) :
            /\ SourceInUse
            /\ UNCHANGED javaSource
            /\ Returned("deviceCommand", thread, <<op, hasData, hasAgid, lba>>,
                        JavaIoctl(source, thread \in attachedThreads, op, hasData, hasAgid,
                                  lba, e))

(***************************************************************************)
(* open, openWithProvider and close called from two threads at once.  The  *)
(* code takes no lock, so the statements of the calls interleave; a step   *)
(* is one access to g_nextHandleId or one operation of g_dvdHandles.       *)
(*   inFlight.thr[t]   where thread t is in its call, and the call's locals *)
(*   inFlight.done     the calls that returned, in the order they returned  *)
(*   inFlight.corrupt  erase was given an iterator another thread's erase   *)
(*                     had invalidated                                      *)
(***************************************************************************)
RaceThreads == {1, 2}

IdleThread == [pc |-> "idle", op |-> "none", handleId |-> 0, dvd |-> 0, calls |-> 0]

\* the dvd_reader_t of thread t's next open
ReaderOf(t) == 10 * t + inFlight.thr[t].calls

Finish(t, ret) ==
    [inFlight EXCEPT
       !.thr[t] = [IdleThread EXCEPT !.calls = inFlight.thr[t].calls + 1],
       !.done = Append(@, [thread |-> t, op |-> inFlight.thr[t].op,
                           handleId |-> inFlight.thr[t].handleId,
                           dvd |-> inFlight.thr[t].dvd, ret |-> ret])]

\* DVDOpen / new JavaDataSource and DVDOpenStream succeed
RaceOpen(t) ==
    \E op \in {"open", "openWithProvider"} :
        /\ inFlight.thr[t].pc = "idle"
        /\ inFlight.thr[t].calls < MaxRaceCalls
        /\ inFlight' = [inFlight EXCEPT !.thr[t].pc = "opened", !.thr[t].op = op,
                                        !.thr[t].dvd = ReaderOf(t)]
        /\ liveReaders' = liveReaders \cup {ReaderOf(t)}
        /\ liveSources' = IF op = "openWithProvider" THEN liveSources \cup {ReaderOf(t)}
                          ELSE liveSources
        /\ UNCHANGED <<g_dvdHandles, g_nextHandleId>>

\* "jlong handleId = g_nextHandleId++": the read ...
RaceLoadId(t) ==
    /\ inFlight.thr[t].pc = "opened"
    /\ g_nextHandleId <= MaxHandles
    /\ inFlight' = [inFlight EXCEPT !.thr[t].pc = "loaded",
                                    !.thr[t].handleId = g_nextHandleId]
    /\ UNCHANGED <<g_dvdHandles, g_nextHandleId, liveReaders, liveSources>>

\* ... and the write
RaceStoreId(t) ==
    /\ inFlight.thr[t].pc = "loaded"
    /\ g_nextHandleId' = inFlight.thr[t].handleId + 1
    /\ inFlight' = [inFlight EXCEPT !.thr[t].pc = "stored"]
    /\ UNCHANGED <<g_dvdHandles, liveReaders, liveSources>>

\* "g_dvdHandles[handleId] = std::move(handle)": the DvdHandle the slot held,
\* if any, is destroyed; then the call returns handleId
RaceInsert(t) ==
    /\ inFlight.thr[t].pc = "stored"
    /\ LET handleId == inFlight.thr[t].handleId
           old == IF handleId \in DOMAIN g_dvdHandles THEN {g_dvdHandles[handleId].dvd} ELSE {}
       IN /\ g_dvdHandles' =
               InsertHandle([h \in DOMAIN g_dvdHandles \ {handleId} |-> g_dvdHandles[h]],
                            handleId,
                            [dvd |-> inFlight.thr[t].dvd, disc |-> 1,
                             javaSource |-> (inFlight.thr[t].op = "openWithProvider")])
          /\ liveReaders' = liveReaders \ old
          /\ liveSources' = liveSources \ old
          /\ inFlight' = Finish(t, handleId)
    /\ UNCHANGED g_nextHandleId

\* the handles thread t's opens have returned: a handle is used by one thread
OwnHandles(t) ==
    {inFlight.done[i].ret : i \in {j \in DOMAIN inFlight.done :
                                     /\ inFlight.done[j].thread = t
                                     /\ inFlight.done[j].op # "close"}}

\* dvdCloseNative(handle) up to "auto it = g_dvdHandles.find(handle)"
RaceCloseFind(t) ==
    \E handle \in OwnHandles(t) :
        /\ inFlight.thr[t].pc = "idle"
        /\ inFlight.thr[t].calls < MaxRaceCalls
        /\ inFlight' =
             IF Found(handle)
             THEN [inFlight EXCEPT !.thr[t].pc = "found", !.thr[t].op = "close",
                                   !.thr[t].handleId = handle]
             ELSE [inFlight EXCEPT
                     !.thr[t] = [IdleThread EXCEPT !.calls = inFlight.thr[t].calls + 1],
                     !.done = Append(@, [thread |-> t, op |-> "close", handleId |-> handle,
                                         dvd |-> 0, ret |-> 0])]
        /\ UNCHANGED <<g_dvdHandles, g_nextHandleId, liveReaders, liveSources>>

\* "g_dvdHandles.erase(it)"
RaceCloseErase(t) ==
    /\ inFlight.thr[t].pc = "found"
    /\ LET handle == inFlight.thr[t].handleId IN
       IF Found(handle)
       THEN /\ g_dvdHandles' = EraseHandle(g_dvdHandles, handle)
            /\ liveReaders' = liveReaders \ {g_dvdHandles[handle].dvd}
            /\ liveSources' = liveSources \ {g_dvdHandles[handle].dvd}
            /\ inFlight' = Finish(t, 0)
       ELSE /\ inFlight' = [Finish(t, 0) EXCEPT !.corrupt = TRUE]
            /\ UNCHANGED <<g_dvdHandles, liveReaders, liveSources>>
    /\ UNCHANGED g_nextHandleId

RaceStep(t) ==
    /\ ~inFlight.corrupt
    /\ \/ RaceOpen(t)
       \/ RaceLoadId(t)
       \/ RaceStoreId(t)
       \/ RaceInsert(t)
       \/ RaceCloseFind(t)
       \/ RaceCloseErase(t)
    /\ UNCHANGED <<discs, g_vobHandles, g_nextVobHandleId, lastCall, stream, sink, Provider,
                   vlc>>

NextRace == \E t \in RaceThreads : RaceStep(t)

(***************************************************************************)
(* The media of the model.                                                 *)
(***************************************************************************)
T1 == Time(0, 0, 1, 0)
T2 == Time(0, 1, 2, 16)
T3 == Time(1, 2, 3, 0)

PgcOne == Pgc(T1, <<1>>, <<Cell(0, 1, T1)>>)
PgcTwo == Pgc(T3, <<1, 3>>, <<Cell(4, 5, T1), Cell(9, 8, T2), Cell(10, 10, T3)>>)
PgcCorrupt == Pgc(T2, <<1>>, <<Cell(3, 2, T2)>>)

MatNone == VtsiMat(0, <<>>, 0, <<>>)
MatTwo == VtsiMat(2, <<AudioAttr(17742, 0, 0, 5), AudioAttr(25701, 5, 2, 1)>>,
                  1, <<SubpAttr(17742, 0)>>)

BaseVts1 == VtsIfo(Ptr(MatTwo), Ptr(PttSrpt(<<1, 2>>)), Ptr(Pgcit(<<Ptr(PgcOne), Ptr(PgcTwo)>>)))
BaseVts2 == VtsIfo(Ptr(MatNone), Ptr(PttSrpt(<<1>>)), Ptr(Pgcit(<<Ptr(PgcTwo)>>)))
BaseTitles == <<Title(1, 2), Title(2, 1)>>
BaseVmg == VmgIfo(Ptr(VmgiMat(<<"D", "V", "D">>, 0)), Ptr(TtSrpt(BaseTitles)), NULL)

Disc(vmg, vts, vob) == [vmg |-> vmg, vts |-> vts, vob |-> vob]

\* media that differ in the disc-wide metadata, media that differ in the
\* metadata of title set 1, and media whose VOB files cannot all be opened
CatalogMedia ==
    {Disc(vmg, <<Ptr(BaseVts1), Ptr(BaseVts2)>>, <<TRUE, TRUE>>) :
       vmg \in {NULL}
           \cup {Ptr(VmgIfo(Ptr(VmgiMat(<<"D">>, 0)), tt, NULL)) :
                   tt \in {NULL} \cup {Ptr(TtSrpt(t)) :
                                         t \in {<<>>, <<Title(1, 1)>>, <<Title(1, 0)>>,
                                                <<Title(3, 1)>>, <<Title(2, 1), Title(1, 1)>>}}}
           \cup {Ptr(VmgIfo(mat, Ptr(TtSrpt(BaseTitles)), txt)) :
                   mat \in {NULL, Ptr(VmgiMat(<<>>, 0)), Ptr(VmgiMat(<<" ", "A", " ">>, 0)),
                            Ptr(VmgiMat(<<" ">>, 1)), Ptr(VmgiMat(<<>>, 1))},
                   txt \in {NULL, Ptr(<<"N", " ">>), Ptr(<<" ">>)}}}
    \cup
    {Disc(Ptr(BaseVmg), <<vts, Ptr(BaseVts2)>>, <<TRUE, TRUE>>) :
       vts \in {NULL}
           \cup {Ptr(VtsIfo(mat, Ptr(PttSrpt(<<1, 2>>)), Ptr(Pgcit(<<Ptr(PgcOne), Ptr(PgcTwo)>>)))) :
                   mat \in {NULL, Ptr(MatNone)}}
           \cup {Ptr(VtsIfo(Ptr(MatTwo), ptt, pgcit)) :
                   ptt \in {NULL} \cup {Ptr(PttSrpt(t)) :
                                          t \in {<<>>, <<1>>, <<1, 2>>, <<2, 1>>, <<1, 0>>, <<1, 3>>}},
                   pgcit \in {NULL} \cup {Ptr(Pgcit(g)) :
                                            g \in {<<>>, <<NULL>>, <<Ptr(PgcOne)>>,
                                                   <<Ptr(PgcOne), Ptr(PgcTwo)>>,
                                                   <<NULL, Ptr(PgcTwo)>>,
                                                   <<Ptr(PgcTwo), NULL>>,
                                                   <<Ptr(PgcCorrupt), Ptr(PgcOne)>>}}}}
    \cup
    {Disc(Ptr(BaseVmg), <<Ptr(BaseVts1), Ptr(BaseVts2)>>, vob) :
       vob \in {<<FALSE, TRUE>>, <<TRUE, FALSE>>}}

\* media with one title, which differ in the cells of its program chain; the
\* cells of the last two are the sectors 2^32-2 and 2^32-1, and all 2^32 sectors
CellLists ==
    {<<>>,
     <<Cell(0, 0, T1)>>,
     <<Cell(0, 2, T1)>>,
     <<Cell(3, 2, T1)>>,
     <<Cell(0, 1, T1), Cell(5, 4, T2), Cell(6, 7, T1)>>,
     <<Cell(2, 1, T1), Cell(4, 4, T2)>>,
     <<Cell(0, 1, T1), Cell(2, 3, T1)>>,
     <<Cell(5, 6, T1), Cell(0, 1, T1)>>,
     <<Cell(0, 2, T1), Cell(1, 3, T1)>>,
     <<Cell(0, 129, T3)>>,
     <<Cell(-2, -1, T1)>>,
     <<Cell(0, -1, T1)>>}

StreamMedia ==
    {Disc(Ptr(VmgIfo(Ptr(VmgiMat(<<"D">>, 0)), Ptr(TtSrpt(<<Title(1, 1)>>)), NULL)),
          <<Ptr(VtsIfo(Ptr(MatNone), Ptr(PttSrpt(<<1>>)),
                       Ptr(Pgcit(<<Ptr(Pgc(T3, IF cells = <<>> THEN <<>> ELSE <<1>>,
                                           cells))>>))))>>,
          <<TRUE>>) :
       cells \in CellLists}

\* the medium of the registry's model: its title table is empty and it holds
\* title set 1
RegistryMedia ==
    <<Disc(Ptr(VmgIfo(Ptr(VmgiMat(<<"D">>, 0)), Ptr(TtSrpt(<<>>)), NULL)),
           <<Ptr(BaseVts1)>>, <<TRUE>>)>>


(***************************************************************************)
(* The player integration (vlc_jni.cpp): nativeInit and nativeCreateMedia. *)
(* A pointer of vlc_jni.cpp is TRUE when it is not nullptr.                *)
(***************************************************************************)
VlcSymbols == {"libvlc_media_new_callbacks", "libvlc_media_release",
               "libvlc_media_player_set_media", "libvlc_media_add_option"}

\* environment: the libvlc.so of the process: the functions it exports, whether
\* Java's LibVLC holds it loaded, and whether dlopen can load it
VlcLibraries ==
    {l \in [exports : SUBSET VlcSymbols, javaLoaded : BOOLEAN, loadable : BOOLEAN] :
        l.javaLoaded => l.loadable}

VlcCall(op, arg, ret, lib) ==
    [op |-> op, arg |-> arg, ret |-> ret, lib |-> lib, ub |-> FALSE, crashed |-> FALSE]

\* the statics of vlc_jni.cpp when the library is loaded; `library` is the
\* libvlc.so of the process once a dlopen has met it, `initialized` whether a
\* nativeInit has returned JNI_TRUE
NoVlc ==
    [g_vm |-> FALSE, g_libvlc_handle |-> FALSE,
     g_libvlc_media_new_callbacks |-> FALSE, g_libvlc_media_release |-> FALSE,
     g_libvlc_media_player_set_media |-> FALSE, g_libvlc_media_add_option |-> FALSE,
     library |-> NULL, initialized |-> FALSE,
     call |-> VlcCall("none", 0, 0, <<>>)]

\* the code of libvlc.so is mapped while Java's LibVLC or g_libvlc_handle holds it
LibraryMapped(v) ==
    \/ v.g_libvlc_handle
    \/ ~IsNull(v.library) /\ Deref(v.library).javaLoaded

\* nativeInit: 1 is JNI_TRUE, 0 is JNI_FALSE.  dlopen runs with RTLD_NOLOAD, then
\* without it when that returned nullptr; each of the four dlsym calls leaves
\* its static at the address found, or at nullptr
VlcInit(v, getJavaVmOk, library) ==
    LET vm == [v EXCEPT !.g_vm = TRUE]
        met == [vm EXCEPT !.library = Ptr(library)]
        looked ==
            [met EXCEPT !.g_libvlc_media_new_callbacks =
                            "libvlc_media_new_callbacks" \in library.exports,
                        !.g_libvlc_media_release =
                            "libvlc_media_release" \in library.exports,
                        !.g_libvlc_media_player_set_media =
                            "libvlc_media_player_set_media" \in library.exports,
                        !.g_libvlc_media_add_option =
                            "libvlc_media_add_option" \in library.exports]
        getVm == IF v.g_vm THEN <<>> ELSE <<"GetJavaVM">>
        dlopens == IF library.javaLoaded THEN <<"dlopen">> ELSE <<"dlopen", "dlopen">>
        dlsyms == <<"dlsym", "dlsym", "dlsym", "dlsym">>
    IN  IF v.g_libvlc_handle
        THEN [v EXCEPT !.call = VlcCall("nativeInit", 0, 1, <<>>)]
        ELSE IF ~v.g_vm /\ ~getJavaVmOk
        THEN [v EXCEPT !.call = VlcCall("nativeInit", 0, 0, getVm)]
        ELSE IF ~library.javaLoaded /\ ~library.loadable
        THEN [met EXCEPT !.call = VlcCall("nativeInit", 0, 0, getVm \o dlopens)]
        ELSE IF ~looked.g_libvlc_media_new_callbacks \/ ~looked.g_libvlc_media_release
        THEN [looked EXCEPT !.g_libvlc_handle = FALSE,
                            !.call = VlcCall("nativeInit", 0, 0,
                                             getVm \o dlopens \o dlsyms
                                                 \o <<"dlclose">>)]
        ELSE [looked EXCEPT !.g_libvlc_handle = TRUE,
                            !.initialized = TRUE,
                            !.call = VlcCall("nativeInit", 0, 1,
                                             getVm \o dlopens \o dlsyms)]

\* nativeCreateMedia: the jlong returned is 0, or 1 for a media
VlcCreateMedia(v, libVlcInstance, getJavaVmOk, methodsFound, outcome) ==
    LET vm == [v EXCEPT !.g_vm = TRUE]
        getVm == IF v.g_vm THEN <<>> ELSE <<"GetJavaVM">>
        prepare == getVm \o <<"NewGlobalRef", "GetObjectClass", "GetMethodID",
                              "GetMethodID", "GetMethodID", "GetMethodID", "GetMethodID">>
        release == <<"DeleteGlobalRef">>
        create == prepare \o <<"libvlc_media_new_callbacks">>
        options == IF v.g_libvlc_media_add_option
                   THEN <<"libvlc_media_add_option", "libvlc_media_add_option">>
                   ELSE <<>>
        Answer(ret, lib) == VlcCall("nativeCreateMedia", libVlcInstance, ret, lib)
        Through(ret, lib) == [Answer(ret, lib) EXCEPT !.ub = ~LibraryMapped(v),
                                                  !.crashed = outcome = "crash"]
    IN  IF ~v.g_vm /\ ~getJavaVmOk
        THEN [v EXCEPT !.call = Answer(0, getVm)]
        ELSE IF ~v.g_libvlc_media_new_callbacks
        THEN [vm EXCEPT !.call = Answer(0, getVm)]
        ELSE IF libVlcInstance = 0
        THEN [vm EXCEPT !.call = Answer(0, getVm)]
        ELSE IF ~methodsFound
        THEN [vm EXCEPT !.call = Answer(0, prepare \o release)]
        ELSE IF outcome = "crash"
        THEN [vm EXCEPT !.call = Through(0, create)]
        ELSE IF outcome = "nullptr"
        THEN [vm EXCEPT !.call = Through(0, create \o release)]
        ELSE [vm EXCEPT !.call = Through(1, create \o options)]

\* a dlopen meets the libvlc.so it met before, if any
nativeInit ==
    /\ ~vlc.call.crashed
    /\ \E getJavaVmOk \in BOOLEAN,
          library \in IF IsNull(vlc.library) THEN VlcLibraries ELSE {Deref(vlc.library)} :
           vlc' = VlcInit(vlc, getJavaVmOk, library)
    /\ UNCHANGED <<discs, Registry, lastCall, stream, sink, inFlight, Provider>>

\* libVlcInstance is 0 or the handle of a LibVLC instance; the call through
\* g_libvlc_media_new_callbacks returns a media or nullptr, and can do anything
\* when the code behind the pointer is unmapped
nativeCreateMedia ==
    /\ ~vlc.call.crashed
    /\ \E libVlcInstance \in {0, 1}, getJavaVmOk \in BOOLEAN, methodsFound \in BOOLEAN,
          outcome \in IF LibraryMapped(vlc) THEN {"media", "nullptr"}
                      ELSE {"media", "nullptr", "crash"} :
           vlc' = VlcCreateMedia(vlc, libVlcInstance, getJavaVmOk, methodsFound, outcome)
    /\ UNCHANGED <<discs, Registry, lastCall, stream, sink, inFlight, Provider>>

NextVlc ==
    \/ nativeInit
    \/ nativeCreateMedia


(***************************************************************************)
(* Specifications.                                                         *)
(*   Spec         the handle registry: any opens, closes and calls         *)
(*   SpecCatalog  one open handle on any medium of CatalogMedia            *)
(*   SpecStream   one open handle on any medium of StreamMedia             *)
(*   SpecProvider the provider callbacks on one JavaDataSource              *)
(*   SpecRace     opens and closes on two threads at once                   *)
(*   SpecVlc      the player integration: nativeInit and nativeCreateMedia  *)
(*   SpecIds      the handle ids: opens and closes of discs, content sets   *)
(***************************************************************************)
NoCall == [op |-> "none", args |-> <<>>, ret |-> 0, lib |-> <<>>, ub |-> FALSE,
           crashed |-> FALSE]

NoCallback == [op |-> "none", thread |-> "java", args |-> <<>>, ret |-> 0, jni |-> <<>>,
               call |-> NULL, copied |-> 0, moved |-> {}, ub |-> FALSE, crashed |-> FALSE]

\* no provider callback has run: the host's thread is attached to the JavaVM;
\* neither thread of the concurrent calls has called yet; vlc_jni.cpp's statics
\* are as loaded
NoProvider ==
    /\ attachedThreads = {"java"}
    /\ javaSource = NULL
    /\ lastCallback = NoCallback
    /\ inFlight = [thr |-> [t \in RaceThreads |-> IdleThread], done |-> <<>>,
                   corrupt |-> FALSE]
    /\ vlc = NoVlc

\* the state when the library is loaded
Init ==
    /\ discs = RegistryMedia
    /\ g_dvdHandles = <<>>
    /\ g_nextHandleId = 1
    /\ g_vobHandles = <<>>
    /\ g_nextVobHandleId = 1
    /\ liveReaders = {}
    /\ liveSources = {}
    /\ lastCall = NoCall
    /\ stream = IdleStream
    /\ sink = <<>>
    /\ NoProvider

\* the state after dvdOpenNative has returned handle 1 for the medium
OpenedOn(media) ==
    /\ discs \in {<<d>> : d \in media}
    /\ g_dvdHandles = (1 :> [dvd |-> 1, disc |-> 1, javaSource |-> FALSE])
    /\ g_nextHandleId = 2
    /\ g_vobHandles = <<>>
    /\ g_nextVobHandleId = 1
    /\ liveReaders = {1}
    /\ liveSources = {}
    /\ lastCall = Call("open", <<>>, Ret(1, <<<<"DVDOpen", 1>>>>))
    /\ stream = IdleStream
    /\ sink = <<>>
    /\ NoProvider


InitCatalog == OpenedOn(CatalogMedia)
InitStream == OpenedOn(StreamMedia)

Streaming(H, T) ==
    \/ dvdStreamToFdNative(H, T)
    \/ StreamCell
    \/ StreamRead
    \/ StreamWrite

Queries(H, T, C) ==
    \/ dvdGetTitleCountNative(H)
    \/ dvdReadTitleNative(H, T)
    \/ dvdGetAudioTracksNative(H, T)
    \/ dvdGetSubtitleTracksNative(H, T)
    \/ dvdReadChapterNative(H, T, C)
    \/ dvdGetNameNative(H)
    \/ dvdGetVobOffsetsNative(H, T)

\* the registry's model passes every handle value, one title and chapter, and
\* the title sets 1 (present on the medium) and 2 (not present); the medium
\* has no title, so that dvdStreamToFdNative returns from its entry
Next ==
    \/ dvdOpenNative
    \/ dvdOpenStreamNative
    \/ dvdCloseNative
    \/ dvdOpenVobFileNative(HandleArgs, {1, 2}, 1)
    \/ dvdCloseVobFileNative({0, 1, 2})
    \/ Queries(HandleArgs, {1}, {1})
    \/ dvdStreamToFdNative(HandleArgs, {1})

\* the catalog's and the stream's models pass the open handle and every title
\* and chapter number; the title count is asked of handles that are not open too
NextCatalog ==
    \/ Queries({1}, TitleArgs, ChapterArgs)
    \/ dvdGetTitleCountNative({0, 2})
    \/ Streaming({1}, TitleArgs)

NextStream == Streaming({1}, TitleArgs)

\* the content sets' model: on the disc handle 1, open from the start, content
\* sets are opened, read and closed in any order, and the disc is closed at any
\* point; a read asks for no sector, for one, for two, or for so many that their
\* size in bytes is beyond an int
NextContentSet ==
    \/ dvdCloseNative
    \/ dvdOpenVobFileNative({1, 2}, {1, 2}, MaxVobHandles)
    \/ dvdReadVobBlocksNative(VobHandleArgs, {0, 1, 2, 2 * (INT_MAX \div DVD_VIDEO_LB_LEN + 1)},
                              {100, 2 * DVD_VIDEO_LB_LEN})
    \/ dvdCloseVobFileNative(VobHandleArgs)

\* the handle ids' model: opens and closes of discs and of content sets, up to
\* MaxHandles disc ids and MaxVobHandles content-set ids
NextIds ==
    \/ dvdOpenNative
    \/ dvdOpenStreamNative
    \/ dvdCloseNative
    \/ dvdOpenVobFileNative(1..MaxHandles, {1}, MaxVobHandles)
    \/ dvdCloseVobFileNative(VobHandleArgs)

\* the decoders' model: dvdTimeToMs on no timecode and on timecodes whose bytes
\* are BCD digits, 0x59 and 0xFF; langCodeToString on codes whose bytes are
\* letters of either case and the bytes next to them; dvdGetAudioTracksNative
\* on title sets with one audio stream of every format, frequency and channel
\* field, and with a full attribute table that declares no, 8 or 9 streams
NextDecode ==
    \/ \E t \in {NULL} \cup {Ptr(Time(h, m, s, f)) : h, m, s, f \in {0, 1, 2, 3, 89, 255}} :
          Query("dvdTimeToMs", <<t>>, Ret(dvdTimeToMs(t), <<>>))
    \/ \E a, b \in {0, 32, 48, 64, 65, 69, 78, 90, 91, 96, 97, 110, 122, 123, 255} :
          Query("langCodeToString", <<256 * a + b>>, Ret(langCodeToString(256 * a + b), <<>>))
    \/ \E mat \in {VtsiMat(1, <<AudioAttr(17742, fmt, freq, ch)>>, 0, <<>>) :
                     fmt \in 0..7, freq \in 0..3, ch \in 0..7}
                  \cup {VtsiMat(n, [i \in 1..8 |-> AudioAttr(17742, i - 1, i % 4, 8 - i)],
                                0, <<>>) : n \in {0, 8, 9}} :
          Query("audioTracks", <<mat>>,
                dvdGetAudioTracks(Disc(Ptr(VmgIfo(NULL, Ptr(TtSrpt(<<Title(1, 1)>>)), NULL)),
                                       <<Ptr(VtsIfo(Ptr(mat), NULL, NULL))>>, <<TRUE>>), 1))

\* the provider's model: the callbacks on either thread, in any order, on a
\* JavaDataSource that is created and deleted
NextProvider ==
    \/ CreateJavaDataSource
    \/ DeleteJavaDataSource
    \/ JavaSeekCallback
    \/ JavaReadCallback
    \/ JavaReadvCallback
    \/ JavaIoctlCallback

Spec == Init /\ [][Next]_vars
SpecCatalog == InitCatalog /\ [][NextCatalog]_vars
SpecStream == InitStream /\ [][NextStream]_vars
SpecProvider == Init /\ [][NextProvider]_vars
SpecRace == Init /\ [][NextRace]_vars
SpecContentSet == OpenedOn({RegistryMedia[1]}) /\ [][NextContentSet]_vars
SpecDecode == Init /\ [][NextDecode]_vars
SpecVlc == Init /\ [][NextVlc]_vars
SpecIds == Init /\ [][NextIds]_vars

(***************************************************************************)
(* Properties of the handle registry (Spec).                               *)
(***************************************************************************)
\* the step is the call op(args...) whose first argument is handle
IsCall(ops, handle) ==
    /\ lastCall'.op \in ops
    /\ Len(lastCall'.args) > 0
    /\ lastCall'.args[1] = handle

\* C1: close(h) removes at most the entry h from the disc-handle registry; a
\* close of a handle that is not registered (closed before, never issued, or
\* non-positive) changes nothing; every other handle keeps its entry, its
\* reader stays open, and the handle counter is not touched.
C1_CloseIdempotentIsolated ==
    [][\A h \in HandleArgs :
         IsCall({"close"}, h) =>
            /\ DOMAIN g_dvdHandles' = DOMAIN g_dvdHandles \ {h}
            /\ \A k \in DOMAIN g_dvdHandles' :
                  /\ g_dvdHandles'[k] = g_dvdHandles[k]
                  /\ g_dvdHandles'[k].dvd \in liveReaders'
            /\ g_nextHandleId' = g_nextHandleId
            /\ (h <= 0 \/ h \notin DOMAIN g_dvdHandles) => UNCHANGED Registry]_vars

\* two handles were open, close(1) ran, and handle 2 is what is left
C1_Witness ==
    /\ lastCall.op = "close"
    /\ lastCall.args = <<1>>
    /\ lastCall.lib # <<>>
    /\ DOMAIN g_dvdHandles = {2}

HandleOps == {"titleCount", "titleInfo", "chapterInfo", "audioTracks", "subtitleTracks",
              "discName", "streamTitle", "vobSectorRanges", "openContentSet"}

\* the value an operation returns for a handle it does not know
IsSentinel(op, ret) ==
    IF op \in {"titleCount", "streamTitle", "openContentSet"} THEN ret = -1 ELSE ret = NULL

BackendFailed(lib) ==
    \E i \in DOMAIN lib : lib[i] \in {<<"DVDOpen", 0>>, <<"DVDOpenStream", 0>>}

TitleOps == {"titleInfo", "chapterInfo", "audioTracks", "subtitleTracks",
             "vobSectorRanges", "streamTitle"}

\* titleCount(handle), as a call of it would answer
TitleCountOf(handle) == dvdGetTitleCount(DiscOf(handle)).ret

\* C4: a title-scoped query on an open handle with a titleNumber outside
\* [1, titleCount(handle)] returns its sentinel (absent, or -1 for streamTitle)
\* without undefined behaviour, having opened nothing but the disc-wide
\* metadata (the title table is not indexed, so no title set is looked up),
\* and nothing is written to the sink.
C4_TitleOutOfRangeSentinel ==
    (/\ lastCall.op \in TitleOps
     /\ Found(lastCall.args[1])
     /\ lastCall.args[2] \notin 1..TitleCountOf(lastCall.args[1]))
    => /\ ~lastCall.ub
       /\ ~lastCall.crashed
       /\ IsSentinel(lastCall.op, lastCall.ret)
       /\ lastCall.lib \in {<<Open(0)>>, <<Open(0), Close(0)>>}
       /\ stream = IdleStream
       /\ sink = <<>>

CatalogOps == {"titleCount", "titleInfo", "chapterInfo", "audioTracks", "subtitleTracks",
               "discName", "vobSectorRanges"}

\* a table the query op(args) needs is missing from the medium: the disc-wide
\* metadata or its title search table, the metadata of the title's title set,
\* or that title set's program-chain table
TableMissing(op, disc, args) ==
    \/ IsNull(disc.vmg)
    \/ /\ op # "discName"
       /\ IsNull(Deref(disc.vmg).tt_srpt)
    \/ /\ op = "discName"
       /\ IsNull(Deref(disc.vmg).vmgi_mat)
    \/ /\ op \notin {"discName", "titleCount"}
       /\ ~IsNull(Deref(disc.vmg).tt_srpt)
       /\ args[2] \in 1..Deref(Deref(disc.vmg).tt_srpt).nr_of_srpts
       /\ LET vts == ifoOpen(disc, Deref(Deref(disc.vmg).tt_srpt).title[args[2]].title_set_nr)
          IN \/ IsNull(vts)
             \/ /\ op \in {"audioTracks", "subtitleTracks"}
                /\ IsNull(Deref(vts).vtsi_mat)
             \/ /\ op \in {"titleInfo", "chapterInfo", "vobSectorRanges"}
                /\ IsNull(Deref(vts).vts_pgcit)

\* C5: a catalog query on an open handle whose medium lacks a table the query
\* needs returns its absent value (0 for titleCount) and executes no undefined
\* behaviour: it does not read through the missing table's pointer.
C5_MissingTableAbsent ==
    (/\ lastCall.op \in CatalogOps
     /\ Found(lastCall.args[1])
     /\ TableMissing(lastCall.op, DiscOf(lastCall.args[1]), lastCall.args))
    => /\ ~lastCall.ub
       /\ ~lastCall.crashed
       /\ IF lastCall.op = "titleCount" THEN lastCall.ret = 0 ELSE lastCall.ret = NULL

(***************************************************************************)
(* Properties of streaming against the sector ranges (SpecCatalog,         *)
(* SpecStream).                                                            *)
(***************************************************************************)
\* the (first, last) pairs of a flat array of offsets
RECURSIVE Pairs(_)
Pairs(flat) ==
    IF Len(flat) < 2 THEN <<>>
    ELSE <<<<flat[1], flat[2]>>>> \o Pairs(Tail(Tail(flat)))

\* what vobSectorRanges answers for the title of the streamTitle call
RangesOfStreamedTitle == dvdGetVobOffsets(DiscOf(stream.handle), stream.titleNumber).ret

IsValidCell(cell) == U32Le(cell.first_sector, cell.last_sector)

ValidRanges(cells) ==
    LET sel == SelectSeq(cells, IsValidCell)
    IN [i \in 1..Len(sel) |-> <<sel[i].first_sector, sel[i].last_sector>>]

IsPrefix(s, t) == Len(s) <= Len(t) /\ s = SubSeq(t, 1, Len(s))

HeadsPassed(st) ==
    IF st.pc = "cell" \/ st.exit = "completed" THEN st.cellIdx ELSE st.cellIdx + 1

\* the indexes (from 0) of the corrupt cells among the first k
CorruptIndexes(cells, k) ==
    SelectSeq([i \in 1..k |-> i - 1], LAMBDA i : ~IsValidCell(cells[i + 1]))

\* the sectors a run of accepted bytes touches
SectorsOfRun(run) ==
    run.sector .. (IF RunEndOff(run) = 0 THEN RunEndSector(run) - 1 ELSE RunEndSector(run))

ValidSectors(cells) ==
    UNION {cells[i].first_sector .. cells[i].last_sector :
             i \in {j \in DOMAIN cells : IsValidCell(cells[j])}}

RECURSIVE SinkBytes(_)
SinkBytes(snk) == IF snk = <<>> THEN 0 ELSE snk[1].n + SinkBytes(Tail(snk))

RECURSIVE BytesOfRanges(_)
BytesOfRanges(ranges) ==
    IF ranges = <<>> THEN 0
    ELSE (ranges[1][2] - ranges[1][1] + 1) * DVD_VIDEO_LB_LEN + BytesOfRanges(Tail(ranges))

\* C7: when the chain has a corrupt cell (last < first) and a valid one,
\* streamTitle skips each corrupt cell and visits the valid ones in chain
\* order, reads and writes only sectors of valid cells, and with no read
\* failure delivers every byte of them; vobSectorRanges lists the valid
\* cells in chain order and no corrupt one.
C7_CorruptCellSkipped ==
    (/\ stream.pc # "idle"
     /\ \E i \in DOMAIN stream.cells : ~IsValidCell(stream.cells[i])
     /\ \E i \in DOMAIN stream.cells : IsValidCell(stream.cells[i]))
    => LET k == HeadsPassed(stream)
           r == RangesOfStreamedTitle
       IN /\ stream.visited = ValidRanges(SubSeq(stream.cells, 1, k))
          /\ stream.skipped = CorruptIndexes(stream.cells, k)
          /\ stream.pc \in {"read", "write"} =>
                LET cell == stream.cells[stream.cellIdx + 1] IN
                /\ IsValidCell(cell)
                /\ U32Le(cell.first_sector, stream.currentBlock)
                /\ U32Le(stream.currentBlock, cell.last_sector)
          /\ \A i \in DOMAIN sink : SectorsOfRun(sink[i]) \subseteq ValidSectors(stream.cells)
          /\ ~IsNull(r)
          /\ Pairs(Tail(Deref(r))) = ValidRanges(stream.cells)
          /\ (stream.exit = "completed" /\ stream.readFailures = 0) =>
                SinkBytes(sink) = BytesOfRanges(ValidRanges(stream.cells))

\* a stream completed over a chain of a valid, a corrupt and a valid cell
C7_Witness ==
    /\ stream.exit = "completed"
    /\ stream.readFailures = 0
    /\ stream.skipped = <<1>>
    /\ Len(stream.visited) = 2
    /\ Len(sink) = 2

\* b after a, as strings of bytes
RECURSIVE JoinRuns(_, _)
JoinRuns(a, b) ==
    IF b = <<>> THEN a
    ELSE JoinRuns(SinkAppend(a, b[1].vts, b[1].sector, b[1].off, b[1].n), Tail(b))

\* the results of readBlocks(first, last - first + 1) on the content set vtsN
\* for each range in turn, one after the other, every read succeeding
RECURSIVE ConcatReadBlocks(_, _, _)
ConcatReadBlocks(acc, vtsN, ranges) ==
    IF ranges = <<>> THEN acc
    ELSE LET count == ranges[1][2] - ranges[1][1] + 1
             got == dvdReadVobBlocks([vtsN |-> vtsN], ranges[1][1], count,
                                     count * DVD_VIDEO_LB_LEN, TRUE, count)
         IN ConcatReadBlocks(JoinRuns(acc, got.data), vtsN, Tail(ranges))

\* C8: when streamTitle has completed without a failed read, the bytes the
\* sink accepted are the results of readBlocks over the ranges vobSectorRanges
\* returns for the title, on the title set it returns, one after the other.
C8_StreamEqualsReadBlocks ==
    (stream.exit = "completed" /\ stream.readFailures = 0)
    => LET r == RangesOfStreamedTitle
       IN sink = IF IsNull(r) THEN <<>>
                 ELSE ConcatReadBlocks(<<>>, Deref(r)[1], Pairs(Tail(Deref(r))))

\* a stream of two cells completed although the sink took two writes in part
C8_Witness ==
    /\ stream.exit = "completed"
    /\ stream.readFailures = 0
    /\ Len(stream.visited) = 2
    /\ stream.partialWrites = 2
    /\ SinkBytes(sink) > 0

\* C9: the write that reports EPIPE or takes zero bytes after the sink has
\* accepted N bytes ends the call at once: no read is issued, the sink gets
\* nothing more, the call returns N, and the only step that can follow is a
\* new call.
C9_ConsumerClosedReturnsBytes ==
    [][/\ (stream.pc = "write" /\ stream'.exit \in {"EPIPE", "zero"}) =>
            /\ stream'.pc = "returned"
            /\ stream'.reads = stream.reads
            /\ sink' = sink
            /\ lastCall'.ret = SinkBytes(sink)
       /\ stream.exit \in {"EPIPE", "zero"} =>
            /\ stream'.exit = "none"
            /\ stream'.reads = 0
            /\ sink' = <<>>]_vars

\* the sink reported EPIPE after it had taken part of a sector
C9_Witness ==
    /\ stream.exit = "EPIPE"
    /\ lastCall.ret > 0
    /\ lastCall.ret % DVD_VIDEO_LB_LEN # 0
    /\ lastCall.ret = SinkBytes(sink)

\* C10: a write that fails with an errno other than EAGAIN and EPIPE makes
\* streamTitle return -1.
C10_WriteFaultReturnsFailure ==
    stream.exit = "EIO" => lastCall.ret = -1

(***************************************************************************)
(* Properties of the streaming loop (SpecStream).                          *)
(***************************************************************************)
\* the position in the title set's VOB that the next accepted byte comes from
WriteSector(st) == st.currentBlock + (st.writePtr \div DVD_VIDEO_LB_LEN)
WriteOff(st) == st.writePtr % DVD_VIDEO_LB_LEN

\* C11: a write that reports would-block changes nothing of the call but the
\* fact that it slept: byte counter, write position, current block, the number
\* of reads and the sink are as before, and the call is again at the write;
\* the next write the sink accepts delivers at most the remaining bytes of the
\* batch from exactly that position; and a stream that completed after
\* would-block signals, with no failed read, has delivered every byte of the
\* valid ranges.
C11_WouldBlockRetriesSameBytes ==
    [][/\ (stream.pc = "write" /\ stream'.event = "EAGAIN") =>
            /\ stream' = [stream EXCEPT !.event = "EAGAIN", !.slept = TRUE]
            /\ sink' = sink
            /\ lastCall' = lastCall
       /\ (stream.event = "EAGAIN" /\ stream'.event = "written") =>
            LET k == stream'.totalBytesWritten - stream.totalBytesWritten IN
            /\ k \in 1..stream.bytesRemaining
            /\ sink' = SinkAppend(sink, stream.vtsN, WriteSector(stream), WriteOff(stream), k)
            /\ SinkBytes(sink') = SinkBytes(sink) + k
       /\ (stream'.slept /\ stream'.pc = "write") =>
            /\ stream'.writePtr + stream'.bytesRemaining
                 = stream'.blocksActuallyRead * DVD_VIDEO_LB_LEN
            /\ stream'.totalBytesWritten = SinkBytes(sink')
       /\ (stream'.slept /\ stream'.exit = "completed" /\ stream'.readFailures = 0) =>
            sink' = JoinRuns(<<>>, [i \in DOMAIN stream'.visited |->
                                      [vts |-> stream'.vtsN,
                                       sector |-> stream'.visited[i][1], off |-> 0,
                                       n |-> (stream'.visited[i][2] - stream'.visited[i][1] + 1)
                                             * DVD_VIDEO_LB_LEN]])]_vars

\* a stream completed although the sink reported would-block in the middle of
\* a batch it had taken in part
C11_Witness ==
    /\ stream.exit = "completed"
    /\ stream.slept
    /\ stream.partialWrites > 0
    /\ stream.readFailures = 0
    /\ SinkBytes(sink) = BytesOfRanges(stream.visited)
    /\ SinkBytes(sink) > 0

\* the sectors still to be consumed after the current block of the current cell
SectorsLeft(st) ==
    IF st.pc \in {"read", "write"} THEN st.lastSector - st.currentBlock + 1 ELSE 0

RECURSIVE SectorCount(_)
SectorCount(ranges) ==
    IF ranges = <<>> THEN 0
    ELSE (ranges[1][2] - ranges[1][1] + 1) + SectorCount(Tail(ranges))

\* C13: streamTitle returns only at the end of the cell loop or from a write
\* that reported EPIPE, took zero bytes or failed with another errno that is
\* not would-block.  A step that fails a read, skips a corrupt cell or reports
\* progress does not return.  When the call returns at the end of the cell
\* loop every cell's head was passed, every valid range was visited, and every
\* sector of the valid ranges was consumed: written, or given up by a failed
\* read.
C13_StopsEarlyOnlyOnSinkWrite ==
    [][/\ (stream.pc # "returned" /\ stream'.pc = "returned") =>
            \/ /\ stream.pc = "cell"
               /\ stream'.exit = "completed"
               /\ stream.cellIdx >= Len(stream.cells)
               /\ stream'.visited = ValidRanges(stream'.cells)
               /\ stream'.sectorsRead + stream'.readFailures
                    = SectorCount(stream'.visited)
            \/ /\ stream.pc = "write"
               /\ stream'.exit \in {"EPIPE", "zero", "EIO"}
               /\ stream'.event = stream'.exit
       /\ (\/ stream'.event = "readError" /\ stream.pc = "read"
           \/ Len(stream'.skipped) > Len(stream.skipped)
           \/ Len(stream'.progress) > Len(stream.progress)) =>
            /\ stream'.pc \in {"cell", "read"}
            /\ stream'.exit = "none"]_vars

\* a stream completed over a chain with a corrupt cell although two reads
\* failed, after it had reported progress
C13_Witness ==
    /\ stream.exit = "completed"
    /\ stream.readFailures = 2
    /\ stream.skipped # <<>>
    /\ stream.visited # <<>>
    /\ stream.progress # <<>>

(***************************************************************************)
(* Properties of the provider callbacks (SpecProvider).                    *)
(***************************************************************************)
Has(jni, name) == \E i \in DOMAIN jni : jni[i] = name

OpensDone == {i \in DOMAIN inFlight.done : inFlight.done[i].op \in {"open", "openWithProvider"}}

CloseCalled(handle) ==
    \/ \E i \in DOMAIN inFlight.done :
          inFlight.done[i].op = "close" /\ inFlight.done[i].handleId = handle
    \/ \E t \in RaceThreads :
          inFlight.thr[t].op = "close" /\ inFlight.thr[t].handleId = handle

\* C15: when open, openWithProvider and close run on two threads at once the
\* handle table is as after some sequential order of the calls: no two opens
\* have returned the same handle id, every handle an open returned and no
\* close was called for is registered with the reader of that open, the
\* reader is still open, and no erase met an entry that was already gone.
C15_ConcurrentCallsSerialized ==
    /\ ~inFlight.corrupt
    /\ \A i, j \in OpensDone : inFlight.done[i].ret = inFlight.done[j].ret => i = j
    /\ \A i \in OpensDone :
          LET d == inFlight.done[i] IN
          ~CloseCalled(d.ret) =>
             /\ d.ret \in DOMAIN g_dvdHandles
             /\ g_dvdHandles[d.ret].dvd = d.dvd
             /\ d.dvd \in liveReaders

(***************************************************************************)
(* Properties of the content sets (SpecContentSet).                        *)
(***************************************************************************)
\* the last call was a readBlocks that went as far as DVDReadBlocks
ReadIssued ==
    /\ lastCall.op = "readBlocks"
    /\ \E i \in DOMAIN lastCall.lib : lastCall.lib[i][1] = "DVDReadBlocks"

\* C16: every open content set was opened on a reader that is still open, and
\* no readBlocks has gone to DVDReadBlocks through a reader that close has
\* already destroyed.
C16_ContentSetsOnOpenDiscs ==
    /\ \A v \in DOMAIN g_vobHandles : g_vobHandles[v].dvd \in liveReaders
    /\ ReadIssued => g_vobHandles[lastCall.args[1]].dvd \in liveReaders

\* the reads the last call issued, each <<"DVDReadBlocks", count, blocksRead>>
ReadsIssued == SelectSeq(lastCall.lib, LAMBDA c : c[1] = "DVDReadBlocks")

\* the last call wrote into the caller's array
TouchedOutBuf == \E i \in DOMAIN lastCall.lib : lastCall.lib[i][1] = "SetByteArrayRegion"

\* C17: readBlocks on an open content set (of a disc that is open) with count > 0,
\* its transient buffer allocated, returns after exactly one DVDReadBlocks of
\* count sectors, with min(blocksRead * 2048, capacity) when that read gave
\* blocksRead > 0, with 0 when it gave 0 and with -1 when it failed; on an
\* unknown content set or with count <= 0 it returns -1, has read nothing and
\* has not written into the caller's array.
C17_ReadBlocksResult ==
    lastCall.op = "readBlocks" =>
        LET v == lastCall.args[1]
            count == lastCall.args[3]
            capacity == lastCall.args[4]
        IN IF v \in DOMAIN g_vobHandles /\ count > 0
           THEN (/\ g_vobHandles[v].dvd \in liveReaders
                 /\ lastCall.lib[1][1] # "malloc:NULL") =>
                    /\ ~lastCall.crashed
                    /\ Len(ReadsIssued) = 1
                    /\ ReadsIssued[1][2] = count
                    /\ LET blocksRead == ReadsIssued[1][3]
                       IN lastCall.ret =
                            IF blocksRead < 0 THEN -1
                            ELSE IF blocksRead > capacity \div DVD_VIDEO_LB_LEN
                            THEN capacity
                            ELSE blocksRead * DVD_VIDEO_LB_LEN
           ELSE /\ lastCall.ret = -1
                /\ ReadsIssued = <<>>
                /\ ~TouchedOutBuf

\* C18: openContentSet, where it succeeds, returns an id that no open content
\* set has and that none had before, adds the content set under it on the
\* reader of the disc handle it was given, and leaves the other content sets
\* and the disc handles as they were; closeContentSet(v) takes v alone out of
\* the content sets and leaves the disc handles and their readers as they
\* were, and where v is not open it changes no table at all.
C18_ContentSetHandlesIndependent ==
    [][/\ (lastCall'.op = "openContentSet" /\ lastCall'.ret # -1) =>
            LET id == lastCall'.ret
                handle == lastCall'.args[1]
            IN /\ id \notin DOMAIN g_vobHandles
               /\ id >= g_nextVobHandleId
               /\ g_nextVobHandleId' > id
               /\ DOMAIN g_vobHandles' = DOMAIN g_vobHandles \cup {id}
               /\ \A w \in DOMAIN g_vobHandles : g_vobHandles'[w] = g_vobHandles[w]
               /\ g_vobHandles'[id].dvd = g_dvdHandles[handle].dvd
               /\ UNCHANGED <<g_dvdHandles, g_nextHandleId, liveReaders>>
       /\ lastCall'.op = "closeContentSet" =>
            LET v == lastCall'.args[1]
            IN /\ DOMAIN g_vobHandles' = DOMAIN g_vobHandles \ {v}
               /\ \A w \in DOMAIN g_vobHandles' : g_vobHandles'[w] = g_vobHandles[w]
               /\ UNCHANGED <<g_dvdHandles, g_nextHandleId, g_nextVobHandleId, liveReaders>>
               /\ v \notin DOMAIN g_vobHandles => UNCHANGED Registry]_vars

\* two content sets were open at once on the one disc handle there has been,
\* and closeContentSet(1) has closed the first: the second is still open on
\* the reader of the disc handle
C18_Witness ==
    /\ lastCall.op = "closeContentSet"
    /\ lastCall.args = <<1>>
    /\ lastCall.lib # <<>>
    /\ g_nextHandleId = 2
    /\ DOMAIN g_vobHandles = {2}
    /\ g_vobHandles[2].dvd \in liveReaders

(***************************************************************************)
(* Properties of the title and chapter queries (SpecCatalog).              *)
(***************************************************************************)
\* C19: where streamTitle resolves a title set and a program chain for
\* titleNumber, titleInfo(handle, titleNumber) opens that title set and returns
\* the number of programs and the playback time of that chain.
C19_TitleInfoFromResolvedChain ==
    (lastCall.op = "titleInfo" /\ Found(lastCall.args[1])) =>
        LET s == StreamSetup(DiscOf(lastCall.args[1]), lastCall.args[2], TRUE)
        IN s.ok =>
            /\ ~lastCall.ub
            /\ ~IsNull(lastCall.ret)
            /\ \E i \in DOMAIN lastCall.lib : lastCall.lib[i] = Open(s.vtsN)
            /\ Deref(lastCall.ret).chapterCount = s.pgc.nr_of_programs
            /\ Deref(lastCall.ret).duration = dvdTimeToMs(Ptr(s.pgc.playback_time))

\* the chain dvdReadChapterNative reads for titleNumber on the disc
ChainOfChapters(disc, titleNumber) ==
    LET vtsN == Deref(Deref(disc.vmg).tt_srpt).title[titleNumber].vts_ttn
    IN Deref(Deref(Deref(ifoOpen(disc, vtsN)).vts_pgcit).pgci_srp[1])

\* the playback times of the cells from..to of the chain, added up
RECURSIVE CellsMs(_, _, _)
CellsMs(pgc, from, to) ==
    IF from > to THEN 0
    ELSE dvdTimeToMs(Ptr(pgc.cell_playback[from].playback_time)) + CellsMs(pgc, from + 1, to)

\* the cell before the starting cell of the chapter after chapter k
LastCellOf(pgc, k) ==
    IF k < pgc.nr_of_programs THEN pgc.program_map[k + 1] - 1 ELSE pgc.nr_of_cells

\* the playback times of all cells of the chapters 1..k, added up
RECURSIVE ChaptersMs(_, _)
ChaptersMs(pgc, k) ==
    IF k < 1 THEN 0
    ELSE ChaptersMs(pgc, k - 1) + CellsMs(pgc, pgc.program_map[k], LastCellOf(pgc, k))

\* C20: a chapterInfo that returns a chapter returns as its start the playback
\* times of all cells of the chapters before it, each chapter running from its
\* starting cell in the program map to the cell before the next chapter's, and
\* as its duration the playback time of the chapter's starting cell.
C20_ChapterStartSumsAllCells ==
    (lastCall.op = "chapterInfo" /\ ~lastCall.ub /\ ~IsNull(lastCall.ret)) =>
        LET pgc == ChainOfChapters(DiscOf(lastCall.args[1]), lastCall.args[2])
            chapterNumber == lastCall.args[3]
        IN /\ Deref(lastCall.ret).startTime = ChaptersMs(pgc, chapterNumber - 1)
           /\ Deref(lastCall.ret).duration =
                dvdTimeToMs(Ptr(pgc.cell_playback[pgc.program_map[chapterNumber]].playback_time))

\* chapterInfo(handle, titleNumber, ...) gets as far as a chain: the tables it
\* reads on the way are there, and the first chain of the title set it opens
ReachesChain(disc, titleNumber) ==
    /\ ~IsNull(disc.vmg)
    /\ ~IsNull(Deref(disc.vmg).tt_srpt)
    /\ titleNumber \in 1..Deref(Deref(disc.vmg).tt_srpt).nr_of_srpts
    /\ LET vts == ifoOpen(disc, Deref(Deref(disc.vmg).tt_srpt).title[titleNumber].vts_ttn)
       IN /\ ~IsNull(vts)
          /\ ~IsNull(Deref(vts).vts_pgcit)
          /\ Deref(Deref(vts).vts_pgcit).nr_of_pgci_srp > 0
          /\ ~IsNull(Deref(Deref(vts).vts_pgcit).pgci_srp[1])

\* C21: where chapterInfo gets as far as a chain, a chapterNumber outside
\* [1, nr_of_programs], zero and below included, returns absent and no entry
\* of the program map has been read; a chapterNumber inside the range reads
\* the program map at indexes 0..chapterNumber-1 only.
C21_ChapterOutOfRangeAbsent ==
    (/\ lastCall.op = "chapterInfo"
     /\ Found(lastCall.args[1])
     /\ ReachesChain(DiscOf(lastCall.args[1]), lastCall.args[2]))
    => LET pgc == ChainOfChapters(DiscOf(lastCall.args[1]), lastCall.args[2])
           chapterNumber == lastCall.args[3]
       IN IF chapterNumber \in 1..pgc.nr_of_programs
          THEN /\ ~lastCall.ub
               /\ ProgramMapReads(pgc, chapterNumber) \subseteq 0..(chapterNumber - 1)
          ELSE /\ ~lastCall.ub
               /\ IsNull(lastCall.ret)

C23_ResourcesReleasedOnce ==
    /\ [](/\ liveReaders = {g_dvdHandles[h].dvd : h \in DOMAIN g_dvdHandles}
          /\ liveSources = {g_dvdHandles[h].dvd :
                              h \in {k \in DOMAIN g_dvdHandles : g_dvdHandles[k].javaSource}})
    /\ [][/\ (lastCall'.op = "close" /\ Found(lastCall'.args[1]) /\ lastCall'.args[1] > 0) =>
               LET entry == g_dvdHandles[lastCall'.args[1]]
               IN /\ lastCall'.args[1] \notin DOMAIN g_dvdHandles'
                  /\ lastCall'.lib =
                       <<<<"DVDClose", entry.dvd>>>>
                       \o (IF entry.javaSource
                           THEN <<<<"delete JavaDataSource", entry.dvd>>>> ELSE <<>>)
                  /\ entry.dvd \in liveReaders
                  /\ entry.javaSource => entry.dvd \in liveSources
          /\ (lastCall'.op = "close" /\ ~Found(lastCall'.args[1])) =>
               /\ lastCall'.lib = <<>>
               /\ UNCHANGED <<liveReaders, liveSources>>
          /\ (lastCall'.op = "openWithProvider" /\ lastCall'.ret = -1) =>
               /\ lastCall'.lib = <<<<"new JavaDataSource", 0>>, <<"DVDOpenStream", 0>>,
                                    <<"delete JavaDataSource", 0>>>>
               /\ UNCHANGED <<liveReaders, liveSources>>]_vars

\* a handle opened with a provider has been closed while another handle
\* opened with a provider stays open
C23_Witness ==
    /\ lastCall.op = "close"
    /\ Len(lastCall.lib) = 2
    /\ liveSources # {}

(***************************************************************************)
(* Properties of the decoders (SpecDecode).                                *)
(***************************************************************************)
\* the number a byte shows when each of its nibbles is read as a decimal digit
NibblesAsDigits(byte) == 10 * (byte \div 16) + (byte % 16)

\* C24: dvdTimeToMs of a timecode is h*3600000 + m*60000 + s*1000 + f*33 with
\* each of h, m, s, f ten times the high nibble plus the low nibble of its
\* byte, which for 01:02:03 and frame byte 0 is 3723000; of no timecode it is 0.
C24_BcdTimecode ==
    lastCall.op = "dvdTimeToMs" =>
        LET t == lastCall.args[1]
        IN /\ IsNull(t) => lastCall.ret = 0
           /\ ~IsNull(t) =>
                lastCall.ret = NibblesAsDigits(Deref(t).hour) * 3600000
                               + NibblesAsDigits(Deref(t).minute) * 60000
                               + NibblesAsDigits(Deref(t).second) * 1000
                               + NibblesAsDigits(Deref(t).frame_u) * 33
           /\ t = Ptr(Time(1, 2, 3, 0)) => lastCall.ret = 3723000

\* the timecode 0x59:0x59:0x59 with frame byte 0x59 has been decoded
C24_Witness ==
    /\ lastCall.op = "dvdTimeToMs"
    /\ lastCall.args[1] = Ptr(Time(89, 89, 89, 89))
    /\ lastCall.ret = 59 * 3600000 + 59 * 60000 + 59 * 1000 + 59 * 33

\* the tracks the last audioTracks call returned, none where it returned absent
TracksReturned == IF IsNull(lastCall.ret) THEN <<>> ELSE Deref(lastCall.ret)

\* C25: audioTracks returns at most 8 tracks, the track at place i+1 has index
\* i and is decoded from attribute i of the table: channels is the channel
\* field plus 1, sampleRate is 48000, 96000, 44100 or 32000 for the low two
\* bits 0, 1, 2, 3 of the frequency field, and codec is AC3, MPEG1, MPEG2,
\* LPCM, DTS or SDDS for the format 0, 2, 3, 4, 5, 6 and Unknown for any other;
\* as many tracks are returned as the table declares, up to 8.
C25_AudioTracksDecoded ==
    lastCall.op = "audioTracks" =>
        LET mat == lastCall.args[1]
            tracks == TracksReturned
        IN /\ ~lastCall.ub
           /\ Len(tracks) <= 8
           /\ Len(tracks) = Min(mat.nr_of_vts_audio_streams, 8)
           /\ \A k \in DOMAIN tracks :
                LET attr == mat.vts_audio_attr[k] IN
                /\ tracks[k].index = k - 1
                /\ tracks[k].channels = attr.channels + 1
                /\ tracks[k].sampleRate =
                     <<48000, 96000, 44100, 32000>>[(attr.sample_frequency % 4) + 1]
                /\ tracks[k].codec =
                     IF attr.audio_format \in {0, 2, 3, 4, 5, 6}
                     THEN <<"AC3", "", "MPEG1", "MPEG2", "LPCM", "DTS", "SDDS">>[attr.audio_format + 1]
                     ELSE "Unknown"

\* a title set that declares 9 audio streams has given 8 tracks, the sixth a
\* DTS track
C25_Witness ==
    /\ lastCall.op = "audioTracks"
    /\ lastCall.args[1].nr_of_vts_audio_streams = 9
    /\ Len(TracksReturned) = 8
    /\ TracksReturned[6].codec = "DTS"
    /\ TracksReturned[6].index = 5

\* C26: langCodeToString gives the high byte and the low byte of the code,
\* each in lower case, when both are ASCII letters, and the empty string when
\* either is not; 0x454E gives "en" (0x65, 0x6E); the result has length 0 or 2.
C26_LanguageCode ==
    lastCall.op = "langCodeToString" =>
        LET code == lastCall.args[1]
            hi == code \div 256
            lo == code % 256
            Letter(c) == c \in 65..90 \/ c \in 97..122
            Lower(c) == IF c \in 65..90 THEN c + 32 ELSE c
        IN /\ Len(lastCall.ret) \in {0, 2}
           /\ (Letter(hi) /\ Letter(lo)) => lastCall.ret = <<Lower(hi), Lower(lo)>>
           /\ ~(Letter(hi) /\ Letter(lo)) => lastCall.ret = <<>>
           /\ code = 17742 => lastCall.ret = <<101, 110>>

\* "Zn" (0x5A, 0x6E) has been decoded to "zn"
C26_Witness ==
    /\ lastCall.op = "langCodeToString"
    /\ lastCall.args = <<90 * 256 + 110>>
    /\ lastCall.ret = <<122, 110>>

(***************************************************************************)
(* Properties of the program-chain resolution (SpecCatalog).               *)
(***************************************************************************)
\* the chains of a title set, in the order of its chain table
ChainsOf(vts) == IF IsNull(vts.vts_pgcit) THEN <<>> ELSE Deref(vts.vts_pgcit).pgci_srp

\* the chain numbers the part-of-title table names for the in-set title that
\* are numbers of a chain
NamedChains(vts, vtsTtn) ==
    IF IsNull(vts.vts_ptt_srpt) \/ vtsTtn \notin 1..Deref(vts.vts_ptt_srpt).nr_of_srpts
    THEN {}
    ELSE {n \in {Deref(vts.vts_ptt_srpt).title[vtsTtn]} :
            n \in 1..Len(ChainsOf(vts)) /\ ~IsNull(ChainsOf(vts)[n])}

\* the chain the rule selects, NULL when it selects none
SelectedChain(vts, vtsTtn) ==
    IF NamedChains(vts, vtsTtn) # {}
    THEN ChainsOf(vts)[CHOOSE n \in NamedChains(vts, vtsTtn) : TRUE]
    ELSE IF ChainsOf(vts) # <<>> THEN ChainsOf(vts)[1]
    ELSE NULL

\* the call got as far as the resolution: the handle is registered, the title
\* is in the title table and its title set opens
ReachesResolution(call) ==
    /\ Found(call.args[1])
    /\ LET disc == DiscOf(call.args[1]) IN
       /\ ~IsNull(disc.vmg)
       /\ ~IsNull(Deref(disc.vmg).tt_srpt)
       /\ call.args[2] \in 1..Deref(Deref(disc.vmg).tt_srpt).nr_of_srpts
       /\ ~IsNull(ifoOpen(disc, Deref(Deref(disc.vmg).tt_srpt).title[call.args[2]].title_set_nr))

\* the chain the rule selects for the title of the call
ChainForCall(call) ==
    LET tt == Deref(Deref(DiscOf(call.args[1]).vmg).tt_srpt).title[call.args[2]]
    IN SelectedChain(Deref(ifoOpen(DiscOf(call.args[1]), tt.title_set_nr)), tt.vts_ttn)

\* C27: where streamTitle or vobSectorRanges gets as far as the resolution,
\* the chain it works on is the one the part-of-title table names for the
\* in-set title when that is the number of a chain, and the first chain of the
\* chain table otherwise.  When there is neither, streamTitle returns -1 having
\* closed the title set without opening its content, with nothing read or
\* written, and vobSectorRanges returns absent.  When there is one, streamTitle
\* goes on to open the content and iterates over that chain's cells, and
\* vobSectorRanges returns that chain's valid ranges.
C27_ChainSelection ==
    (/\ lastCall.op \in {"streamTitle", "vobSectorRanges"}
     /\ ReachesResolution(lastCall))
    => LET chain == ChainForCall(lastCall) IN
       IF lastCall.op = "streamTitle"
       THEN IF IsNull(chain)
            THEN /\ lastCall.ret = -1
                 /\ ~\E i \in DOMAIN lastCall.lib :
                        lastCall.lib[i][1] \in {"DVDOpenFile", "malloc"}
                 /\ lastCall.lib[Len(lastCall.lib)][1] = "ifoClose"
                 /\ stream = IdleStream
                 /\ sink = <<>>
            ELSE /\ \E i \in DOMAIN lastCall.lib : lastCall.lib[i][1] = "DVDOpenFile"
                 /\ stream.pc # "idle" => stream.cells = Deref(chain).cell_playback
       ELSE IF IsNull(chain)
            THEN IsNull(lastCall.ret)
            ELSE IF ValidRanges(Deref(chain).cell_playback) = <<>>
                 THEN IsNull(lastCall.ret)
                 ELSE /\ ~IsNull(lastCall.ret)
                      /\ Pairs(Tail(Deref(lastCall.ret))) = ValidRanges(Deref(chain).cell_playback)

\* a stream runs on the first chain of the title set although the
\* part-of-title table is there: the number it names is not that of a chain
C27_Witness ==
    /\ lastCall.op = "streamTitle"
    /\ ReachesResolution(lastCall)
    /\ stream.pc # "idle"
    /\ LET tt == Deref(Deref(DiscOf(lastCall.args[1]).vmg).tt_srpt).title[lastCall.args[2]]
           vts == Deref(ifoOpen(DiscOf(lastCall.args[1]), tt.title_set_nr))
       IN /\ ~IsNull(vts.vts_ptt_srpt)
          /\ NamedChains(vts, tt.vts_ttn) = {}
          /\ stream.cells = Deref(ChainsOf(vts)[1]).cell_playback
          /\ Len(stream.cells) > 0

(***************************************************************************)
(* Properties of the batches of streamTitle (SpecStream).                  *)
(***************************************************************************)
\* the step is a DVDReadBlocks of the read loop
IsRead == stream.pc = "read" /\ stream'.reads = stream.reads + 1

\* the sectors from, n of them, are sectors of the valid cell: none is below
\* its first sector, none above its last, and they do not run past 2^32-1
InsideCell(cell, from, n) ==
    /\ IsValidCell(cell)
    /\ U32Le(cell.first_sector, from)
    /\ U32Le(from, from + n - 1)
    /\ U32Le(from + n - 1, cell.last_sector)

\* C28: every DVDReadBlocks of streamTitle asks for 1 to BLOCK_COUNT sectors,
\* all of them sectors of the valid cell the cell loop is at; it is issued
\* when no byte of an earlier batch is still to be written, the sink having
\* accepted every byte of every sector counted as read; and the bytes waiting
\* to be written are never more than one batch of BLOCK_COUNT sectors.
C28_ReadsInsideCellOneBatch ==
    /\ [](stream.bytesRemaining \in 0..(BLOCK_COUNT * DVD_VIDEO_LB_LEN))
    /\ [][IsRead =>
            /\ stream'.blocksToRead \in 1..BLOCK_COUNT
            /\ stream.cellIdx < Len(stream.cells)
            /\ InsideCell(stream.cells[stream.cellIdx + 1], stream.currentBlock,
                          stream'.blocksToRead)
            /\ stream.bytesRemaining = 0
            /\ SinkBytes(sink) = stream.sectorsRead * DVD_VIDEO_LB_LEN]_vars

\* C29: the percentages reported during one streamTitle call are strictly
\* increasing, each one at least 5 above the one reported before it; each lies
\* in 0..100 and is, when it is reported, the whole part of
\* 100 * sectorsRead / totalSectors; nothing is reported when totalSectors is 0.
C29_ProgressInSteps ==
    /\ [](/\ \A i \in DOMAIN stream.progress :
                /\ stream.progress[i] \in 0..100
                /\ i > 1 => stream.progress[i] >= stream.progress[i - 1] + 5
          /\ stream.totalSectors = 0 => stream.progress = <<>>)
    /\ [][stream'.progress # stream.progress =>
            \/ stream'.progress = <<>>
            \/ /\ stream'.totalSectors > 0
               /\ stream'.progress =
                    Append(stream.progress,
                           (100 * stream'.sectorsRead) \div stream'.totalSectors)]_vars

(***************************************************************************)
(* Properties of the byte cursor (SpecProvider).                           *)
(***************************************************************************)
\* the step is the callback op on the JavaDataSource, which is there before
\* and after it
OnSource(op) ==
    /\ ~IsNull(javaSource)
    /\ ~IsNull(javaSource')
    /\ lastCallback' # lastCallback
    /\ lastCallback'.op = op

\* what the device answered to the read callback of the step
Answered(k) ==
    /\ ~IsNull(lastCallback'.call)
    /\ Deref(lastCallback'.call).answer = Ptr(k)

\* the device answered the read callback of the step with a number above 0
AnsweredBytes ==
    /\ ~IsNull(lastCallback'.call)
    /\ ~IsNull(Deref(lastCallback'.call).answer)
    /\ Deref(Deref(lastCallback'.call).answer) > 0

\* the device answered with an exception
Threw ==
    /\ ~IsNull(lastCallback'.call)
    /\ IsNull(Deref(lastCallback'.call).answer)

\* C30: the position of a JavaDataSource changes in two ways only.  A seek to
\* pos on it returns 0 and leaves it at pos.  A read on it to which the device
\* answers k > 0 returns k and moves it on by k.  A read to which the device
\* answers 0 returns 0, one to which it answers a negative number or with an
\* exception returns -1, and both leave the position; so does every read that
\* does not get to the device, and every readVector and deviceCommand.
C30_CursorMoves ==
    [][/\ (OnSource("seek") /\ lastCallback'.ret # -1) =>
            /\ lastCallback'.ret = 0
            /\ Deref(javaSource').position = lastCallback'.args[1]
       /\ (OnSource("seek") /\ lastCallback'.ret = -1) => javaSource' = javaSource
       /\ OnSource("read") =>
            IF AnsweredBytes
            THEN /\ Answered(lastCallback'.ret)
                 /\ Deref(javaSource').position
                      = Deref(javaSource).position + lastCallback'.ret
                 /\ Deref(javaSource').blockSize = Deref(javaSource).blockSize
            ELSE /\ javaSource' = javaSource
                 /\ Answered(0) => lastCallback'.ret = 0
                 /\ (Threw \/ Answered(-1)) => lastCallback'.ret = -1
       /\ (OnSource("readVector") \/ OnSource("deviceCommand")) => javaSource' = javaSource
       /\ (~IsNull(javaSource) /\ ~IsNull(javaSource') /\ javaSource' # javaSource)
            => lastCallback'.op \in {"seek", "read"}]_vars

\* after a read of half the size asked for, at position 100, the cursor is at
\* 100 + 1024
C30_Witness ==
    /\ lastCallback.op = "read"
    /\ ~IsNull(lastCallback.call)
    /\ Deref(lastCallback.call).answer = Ptr(DVD_VIDEO_LB_LEN \div 2)
    /\ lastCallback.ret = DVD_VIDEO_LB_LEN \div 2
    /\ ~IsNull(javaSource)
    /\ Deref(javaSource).position = 100 + DVD_VIDEO_LB_LEN \div 2

(***************************************************************************)
(* Properties of the read callback's request (SpecProvider).               *)
(***************************************************************************)
\* the read callback of the step got as far as the block address: its thread
\* is attached and the Java array is there
ComputesAddress ==
    /\ OnSource("read")
    /\ lastCallback'.crashed \/ Has(lastCallback'.jni, "GetObjectClass")

\* C31: every read callback that gets as far as the block address computes it
\* as the whole part of position / blockSize, a defined value; the device is
\* then called with that address and the size the caller asked for, whether
\* the position is a multiple of blockSize or not, and what it answers is
\* copied to the caller's buffer from its start.
C31_ReadPassedThrough ==
    [][ComputesAddress =>
         /\ ~lastCallback'.ub
         /\ ~lastCallback'.crashed
         /\ ~IsNull(lastCallback'.call) =>
              /\ Deref(javaSource).blockSize > 0
              /\ Deref(lastCallback'.call).lba
                   = Deref(javaSource).position \div Deref(javaSource).blockSize
              /\ Deref(lastCallback'.call).length = lastCallback'.args[1]
              /\ lastCallback'.copied
                   = IF AnsweredBytes THEN Deref(Deref(lastCallback'.call).answer) ELSE 0]_vars

C33_ReadVectorUnsupported ==
    [][(lastCallback' # lastCallback /\ lastCallback'.op = "readVector") =>
         /\ lastCallback'.ret = -1
         /\ IsNull(lastCallback'.call)
         /\ lastCallback'.jni = <<>>
         /\ lastCallback'.copied = 0
         /\ ~lastCallback'.ub
         /\ javaSource' = javaSource
         /\ attachedThreads' = attachedThreads
         /\ Engine' = Engine]_vars

\* a readVector on a JavaDataSource that a seek has left at position 100
C33_Witness ==
    /\ lastCallback.op = "readVector"
    /\ lastCallback.ret = -1
    /\ ~IsNull(javaSource)
    /\ Deref(javaSource).position = 100

(***************************************************************************)
(* Properties of the player integration (SpecVlc).                         *)
(***************************************************************************)
\* the functions of libvlc.so that the last call of vlc_jni.cpp invoked
LibVlcCalls == {i \in DOMAIN vlc.call.lib : vlc.call.lib[i] \in VlcSymbols}

\* C34: when no earlier nativeInit has returned true, nativeCreateMedia returns
\* 0 and invokes no function of libvlc.so; this covers the state after a
\* nativeInit that found a required symbol missing and unloaded the library.
C34_CreateMediaNeedsInit ==
    (vlc.call.op = "nativeCreateMedia" /\ ~vlc.initialized)
        => /\ vlc.call.ret = 0
           /\ LibVlcCalls = {}
           /\ ~vlc.call.crashed

(***************************************************************************)
(* Properties of the handle ids (SpecIds).                                 *)
(***************************************************************************)
\* the step is an open or openWithProvider that returned a handle
OpenedDisc == lastCall'.op \in {"open", "openWithProvider"} /\ lastCall'.ret > 0

\* the step is an openContentSet that returned a handle
OpenedContentSet == lastCall'.op = "openContentSet" /\ lastCall'.ret > 0

\* C35: handle ids are never reused.  Every id that is registered is below its
\* counter, the counters never go down, and a successful open returns an id that
\* is at or above the counter and leaves the counter above it: the id is above
\* every id returned before, closed or not.  The same holds for the ids of
\* content sets and their counter.
C35_IdsNeverReused ==
    /\ [](/\ \A h \in DOMAIN g_dvdHandles : h < g_nextHandleId
          /\ \A v \in DOMAIN g_vobHandles : v < g_nextVobHandleId)
    /\ [][/\ g_nextHandleId' >= g_nextHandleId
          /\ g_nextVobHandleId' >= g_nextVobHandleId
          /\ OpenedDisc => /\ lastCall'.ret >= g_nextHandleId
                           /\ lastCall'.ret < g_nextHandleId'
                           /\ lastCall'.ret \notin DOMAIN g_dvdHandles
          /\ OpenedContentSet => /\ lastCall'.ret >= g_nextVobHandleId
                                 /\ lastCall'.ret < g_nextVobHandleId'
                                 /\ lastCall'.ret \notin DOMAIN g_vobHandles]_vars

\* an open returned id 2 after id 1 had been closed, and an openContentSet
\* returned id 2 after content set 1 had been closed
C35_Witness ==
    /\ lastCall.op = "openContentSet"
    /\ lastCall.ret = 2
    /\ DOMAIN g_vobHandles = {2}
    /\ DOMAIN g_dvdHandles = {2}

(***************************************************************************)
(* Properties of the order of the bytes streamTitle delivers (SpecStream). *)
(***************************************************************************)
\* the place in the title set's VOB of the next byte the call can deliver:
\* sector and byte of the sector
WritePlace(st) ==
    IF st.pc = "write"
    THEN <<st.currentBlock + (st.writePtr \div DVD_VIDEO_LB_LEN),
           st.writePtr % DVD_VIDEO_LB_LEN>>
    ELSE <<st.currentBlock, 0>>

\* place p is at or before place q
PlaceLe(p, q) == U32Lt(p[1], q[1]) \/ (p[1] = q[1] /\ p[2] <= q[2])

\* the place n bytes after place p
PlaceAfter(p, n) ==
    <<p[1] + ((p[2] + n) \div DVD_VIDEO_LB_LEN), (p[2] + n) % DVD_VIDEO_LB_LEN>>

\* the step is a write the sink accepted bytes of
Delivers == stream.pc = "write" /\ sink' # sink

\* C36: the bytes the sink gets are an in-order selection of the title's
\* sectors.  The cells visited are the valid cells of the chain in chain order.
\* Every write delivers bytes of the batch the last read returned, and that
\* batch lies inside the cell being visited.  Within a visit the place of the
\* next byte never moves back and a write moves it past the bytes it delivered,
\* so no sector is delivered twice in a visit.  A stream that completed has
\* delivered every sector of the valid cells but one for each failed read.
C36_InOrderSelection ==
    /\ [](IsPrefix(stream.visited, ValidRanges(stream.cells)))
    /\ [][/\ Delivers =>
               LET cell == stream.cells[stream.cellIdx + 1]
                   lastRead == stream.currentBlock + stream.blocksActuallyRead - 1
                   n == stream'.totalBytesWritten - stream.totalBytesWritten
               IN /\ stream.blocksActuallyRead > 0
                  /\ stream.writePtr + n <= stream.blocksActuallyRead * DVD_VIDEO_LB_LEN
                  /\ U32Le(cell.first_sector, stream.currentBlock)
                  /\ U32Le(stream.currentBlock, lastRead)
                  /\ U32Le(lastRead, cell.last_sector)
                  /\ SinkBytes(sink') = SinkBytes(sink) + n
                  /\ stream'.pc = "write" =>
                         WritePlace(stream') = PlaceAfter(WritePlace(stream), n)
                  /\ stream'.pc # "write" =>
                         PlaceLe(PlaceAfter(WritePlace(stream), n), WritePlace(stream'))
          /\ (stream.pc \in {"read", "write"} /\ stream'.pc \in {"read", "write"}) =>
               /\ stream'.cellIdx = stream.cellIdx
               /\ U32Le(stream.currentBlock, stream'.currentBlock)
               /\ PlaceLe(WritePlace(stream), WritePlace(stream'))
          /\ (stream.pc # "returned" /\ stream'.exit = "completed") =>
               SinkBytes(sink') = (SectorCount(ValidRanges(stream'.cells))
                                      - stream'.readFailures) * DVD_VIDEO_LB_LEN]_vars

(***************************************************************************)
(* Properties of the read loop of streamTitle (SpecStream).                *)
(***************************************************************************)
\* the step is a pass of the while body that does not end the stream: a read
\* that failed, or the write that completes a batch
EndsIteration ==
    /\ stream'.pc # "returned"
    /\ \/ stream.pc = "read" /\ stream'.pc # "write"
       \/ stream.pc = "write" /\ stream'.pc # "write"

\* C37: every pass of the read loop that does not end the stream advances the
\* current block, and the current block never wraps around: after the pass it is
\* above the block before the pass in the order of unsigned 32-bit numbers, for
\* cells with sectors up to 2^32-1 too.  A loop that advances without wrapping
\* leaves every cell after finitely many passes.
C37_BlockAdvancesWithoutWrap ==
    [][/\ stream.pc \in {"read", "write"}
           => \/ stream'.currentBlock = stream.currentBlock
              \/ U32Lt(stream.currentBlock, stream'.currentBlock)
       /\ EndsIteration => U32Lt(stream.currentBlock, stream'.currentBlock)]_vars

(***************************************************************************)
(* Properties of the counters of streamTitle (SpecStream).                 *)
(***************************************************************************)
\* the call is between two batches, or has completed
BatchBoundary == stream.pc \in {"cell", "read"} \/ stream.exit = "completed"

\* C38: a streamTitle call that returns after streaming has started returns the
\* number of bytes the sink accepted during the call; between two batches the
\* bytes written are 2048 times the sectors counted as read; and the sectors
\* counted as read never exceed the total sector count of the valid cells.
C38_CountersAgree ==
    /\ stream.pc = "returned" => lastCall.ret = SinkBytes(sink)
    /\ BatchBoundary => stream.totalBytesWritten = DVD_VIDEO_LB_LEN * stream.sectorsRead
    /\ stream.pc # "idle" => stream.sectorsRead <= stream.totalSectors

(***************************************************************************)
(* Properties of the resources of a call (SpecCatalog).                    *)
(***************************************************************************)
\* how many of the first k library calls of lib are the call c
RECURSIVE CallCount(_, _, _)
CallCount(lib, k, c) ==
    IF k = 0 THEN 0
    ELSE CallCount(lib, k - 1, c) + (IF lib[k] = c THEN 1 ELSE 0)

\* after its first k library calls the call holds the resource that `open`
\* yields and `release` gives back once, or does not hold it; exists tells
\* whether `open` yields a resource at all
HeldRight(lib, k, open, release, exists) ==
    LET opened == IF exists THEN CallCount(lib, k, open) ELSE 0
    IN opened - CallCount(lib, k, release) \in {0, 1}

\* the title sets a call may open, and 0 for the disc-wide metadata
OpenedFiles == {lastCall.lib[i][2] : i \in {j \in DOMAIN lastCall.lib :
                                             lastCall.lib[j][1] \in {"ifoOpen", "DVDOpenFile"}}}

\* C39: when streamTitle or a catalog query has returned, every resource it
\* opened has been released once: each ifoOpen that yielded metadata is matched
\* by one ifoClose after it, each DVDOpenFile that yielded a file by one
\* DVDCloseFile, and the batch buffer of a stream that started by one free;
\* nothing is released that is not held.  No step of these calls changes the
\* handle tables or their counters.  The calls are those that run no undefined
\* operation.
C39_CallReleasesWhatItOpened ==
    /\ [](stream.pc \in {"idle", "returned"} /\ lastCall.op # "none" /\ ~lastCall.ub
            => LET lib == lastCall.lib
                   disc == DiscOf(lastCall.args[1])
               IN /\ \A n \in OpenedFiles :
                       /\ \A k \in 0..Len(lib) :
                            /\ HeldRight(lib, k, Open(n), Close(n), ~IsNull(ifoOpen(disc, n)))
                            /\ HeldRight(lib, k, <<"DVDOpenFile", n>>, <<"DVDCloseFile", n>>,
                                         DVDOpenFile(disc, n))
                       /\ CallCount(lib, Len(lib), Close(n)) =
                            IF IsNull(ifoOpen(disc, n)) THEN 0
                            ELSE CallCount(lib, Len(lib), Open(n))
                       /\ CallCount(lib, Len(lib), <<"DVDCloseFile", n>>) =
                            IF DVDOpenFile(disc, n)
                            THEN CallCount(lib, Len(lib), <<"DVDOpenFile", n>>)
                            ELSE 0
                  /\ CallCount(lib, Len(lib), <<"free", 0>>) =
                       IF stream.pc = "returned" THEN 1 ELSE 0
                  /\ CallCount(lib, Len(lib), <<"DVDCloseFile", 0>>) = 0)
    /\ [][UNCHANGED Registry]_vars

\* a stream that the sink ended with EPIPE after it had taken bytes has opened
\* and released the disc-wide metadata, the title set's metadata, its data file
\* and the batch buffer
C39_Witness ==
    /\ lastCall.op = "streamTitle"
    /\ stream.exit = "EPIPE"
    /\ SinkBytes(sink) > 0
    /\ lastCall.lib = <<Open(0), Close(0), Open(stream.vtsN), <<"DVDOpenFile", stream.vtsN>>,
                        <<"malloc", BLOCK_COUNT * DVD_VIDEO_LB_LEN>>, <<"free", 0>>,
                        <<"DVDCloseFile", stream.vtsN>>, Close(stream.vtsN)>>

(***************************************************************************)
(* Properties of the cached block size (SpecProvider).                     *)
(***************************************************************************)
\* C40: the block size of a provider binding is set when the binding is made,
\* to 2048 when the provider has no getBlockSize, and stays as it is while the
\* binding lives; it is above 0 in every state, whatever the provider reports,
\* so that the read callback's cursor / blockSize is defined.
C40_BlockSizePositive ==
    /\ [](~IsNull(javaSource) => Deref(javaSource).blockSize > 0)
    /\ [][/\ (~IsNull(javaSource) /\ ~IsNull(javaSource')) =>
               Deref(javaSource').blockSize = Deref(javaSource).blockSize
          /\ (lastCallback'.op = "new" /\ ~Has(lastCallback'.jni, "CallIntMethod")) =>
               Deref(javaSource').blockSize = DVD_VIDEO_LB_LEN]_vars

=============================================================================
